---- MODULE Spec2Model ----
(***************************************************************************)
(* The play-by-play preprocessing pipeline of src/utility/pbp_handler.py   *)
(* (class PBPHandler and its row / possession helper functions) as a state *)
(* machine.  The state is the handler's working table self.df (a sequence  *)
(* of rows, each row a record of the columns the passes read or write),    *)
(* the untouched copy self.raw_df, the two-team dictionary self.inverter   *)
(* and the position of preprocess() in its fixed list of passes.  Every    *)
(* pass of preprocess() is one action.                                     *)
(*                                                                         *)
(* Conventions                                                             *)
(*  - a pandas index label i (0-based) is position i+1 of the sequence;    *)
(*  - PCTIMESTRING "M:SS" is the pair <<M, SS>>;                           *)
(*  - a description is the set of the markers the code looks for in it     *)
(*    ("MISS", "3PT", "BLOCK"; "TEXT" stands for any other text), the      *)
(*    empty string being the empty set;                                    *)
(*  - PLAYERn_NAME is "NAME" for a string and "null" for a missing value;  *)
(*  - NaN is the missing numeric value; a column a pass has not created    *)
(*    yet holds NaN (FALSE for the boolean columns);                       *)
(*  - the SCORE / SCOREMARGIN / NEUTRALDESCRIPTION columns, which no pass  *)
(*    reads back, are not carried by the rows.                             *)
(***************************************************************************)
EXTENDS Integers, Sequences, FiniteSets, TLC

\* PBPHandler: df, raw_df, inverter, and pc, failure, verify for preprocess.
\* raw_pbp_downloader.py: the two files of the destination folder (<<>> is
\* a file that does not exist), the loop counter i, the table of the last API
\* call, the position of the script and the number of runs that were cut.
\* assign_lineups and create_shared_poss_dict: the arguments of the first
\* and the dictionary returned by the second.
VARIABLES df, raw_df, inverter, pc, failure, verify, output_file, finished_games_file, loop_i, curr_game_pbp, dpc, crashes, home_rotation_df, away_rotation_df, fill, output_dic

lvars == <<home_rotation_df, away_rotation_df, fill, output_dic>>

dvars == <<output_file, finished_games_file, loop_i, curr_game_pbp, dpc, crashes>>

vars == <<df, raw_df, inverter, pc, failure, verify, dvars, lvars>>

NaN == -1000

\* ------------------------------------------------------------------------
\* Generic helpers on sequences
\* ------------------------------------------------------------------------

isnan(x) == x = NaN

\* pandas / numpy comparison of two numeric cells: NaN equals nothing
eq(a, b) == a # NaN /\ b # NaN /\ a = b

ne(a, b) == ~eq(a, b)

Max(a, b) == IF a >= b THEN a ELSE b

\* the positions of d whose row satisfies P, in increasing order
RECURSIVE SelectIdx(_, _, _)
SelectIdx(d, P(_), i) ==
    IF i > Len(d) THEN <<>>
    ELSE (IF P(d[i]) THEN <<i>> ELSE <<>>) \o SelectIdx(d, P, i + 1)

Where(d, P(_)) == SelectIdx(d, P, 1)

Range(s) == {s[i] : i \in DOMAIN s}

\* Series.unique(): the values of s in order of first appearance
RECURSIVE Unique(_)
Unique(s) ==
    IF s = <<>> THEN <<>>
    ELSE LET r == Unique(SubSeq(s, 1, Len(s) - 1))
             x == s[Len(s)]
         IN  IF x \in Range(r) THEN r ELSE Append(r, x)

Reverse(s) == [i \in 1..Len(s) |-> s[Len(s) + 1 - i]]

\* ------------------------------------------------------------------------
\* General helper functions (module level of pbp_handler.py)
\* ------------------------------------------------------------------------

timestring_to_seconds(time_str) == time_str[1] * 60 + time_str[2]

\* the clock one minute early
seconds_to_timestring_minute_early(sec_int) ==
    <<sec_int \div 60 + 1, sec_int % 60>>

seconds_to_timestring(sec_int) == <<sec_int \div 60, sec_int % 60>>

\* (l1, l2) can be interleaved only when the two extended slices have the
\* sizes of l1 and l2; otherwise the slice assignment raises ValueError
zip_lists_ok(l1, l2) == Len(l1) = Len(l2) \/ Len(l1) = Len(l2) + 1

\* the second list put after the first
zip_lists_concatenated(l1, l2) == l1 \o l2

zip_lists(l1, l2) ==
    [k \in 1..(Len(l1) + Len(l2)) |->
        IF k % 2 = 1 THEN l1[(k + 1) \div 2] ELSE l2[k \div 2]]

\* the positions kept by squish_series: the first one and every position
\* whose value differs from its predecessor's
squish_series(series) ==
    {i \in DOMAIN series : i = 1 \/ series[i - 1] # series[i]}

\* compare_series(s1, s2)[0]
\* a comparison of the lengths only
compare_series_lengths(s1, s2) == Len(s1) = Len(s2)

compare_series(s1, s2) == \A i \in DOMAIN s1 : eq(s1[i], s2[i])

\* every period counted as a quarter of twelve minutes
get_elapsed_time_quarters_only(row) ==
    12 * 60 * 10 - (row.PCTIMESTRING[1] * 60 + row.PCTIMESTRING[2]) * 10
        + (row.PERIOD - 1) * 12 * 60 * 10

get_elapsed_time(row) ==
    LET period == row.PERIOD
        secs   == row.PCTIMESTRING[1] * 60 + row.PCTIMESTRING[2]
        quarter_elapsed == IF period <= 4 THEN 12 * 60 * 10 - secs * 10
                           ELSE 5 * 60 * 10 - secs * 10
        elapsed_periods == IF period <= 4 THEN (period - 1) * 12 * 60 * 10
                           ELSE (period - 5) * 5 * 60 * 10 + 48 * 60 * 10
    IN  quarter_elapsed + elapsed_periods

\* the last minute of every period, the fourth like the others
is_time_off_inbound_last_minute(row) == row.REMAINING_TIME <= 60

is_time_off_inbound(row) ==
    IF row.PERIOD < 4 /\ row.REMAINING_TIME <= 60 THEN TRUE
    ELSE IF row.PERIOD >= 4 /\ row.REMAINING_TIME <= 120 THEN TRUE
    ELSE FALSE

\* every turnover other than a live one raises
clock_on_closed(row) ==
    LET event_code     == row.EVENTMSGTYPE
        action_code    == row.EVENTMSGACTIONTYPE
        action_details == row.ACTION_DETAILS
    IN  IF event_code \in {3, 6, 7, 8, 9, 11, 12, 13, 18} THEN "off"
        ELSE IF event_code \in {2, 10} THEN "on"
        ELSE IF event_code = 4 /\ action_details \in {"OFFENSIVE", "DEFENSIVE"}
             THEN "on"
        ELSE IF event_code = 4 /\ action_details \in
                    {"OFFENSIVE-TEAM", "DEFENSIVE-TEAM", "FAKE"}
             THEN "off"
        ELSE IF event_code \in {5, 0} /\ action_code \in {1, 2} THEN "on"
        ELSE IF event_code = 1 /\ action_details \in {"2PT-AND1", "3PT-AND1"}
             THEN "off"
        ELSE IF event_code = 1 /\ action_details \in {"2PT", "3PT"} THEN "on"
        ELSE IF event_code = 20 /\ action_code = 1 THEN "on"
        ELSE IF event_code = 20 /\ action_code = 2 THEN "off"
        ELSE "raise"

\* clock_on(row): TRUE / FALSE, or "raise" where the function raises
clock_on(row) ==
    LET event_code     == row.EVENTMSGTYPE
        action_code    == row.EVENTMSGACTIONTYPE
        action_details == row.ACTION_DETAILS
    IN  IF event_code \in {3, 6, 7, 8, 9, 11, 12, 13, 18} THEN "off"
        ELSE IF event_code \in {2, 10} THEN "on"
        ELSE IF event_code = 4 /\ action_details \in {"OFFENSIVE", "DEFENSIVE"}
             THEN "on"
        ELSE IF event_code = 4 /\ action_details \in
                    {"OFFENSIVE-TEAM", "DEFENSIVE-TEAM", "FAKE"}
             THEN "off"
        ELSE IF event_code \in {5, 0} /\ action_code \in {1, 2} THEN "on"
        ELSE IF event_code \in {5, 0} /\ action_code \notin {1, 2} THEN "off"
        ELSE IF event_code = 1 /\ action_details \in {"2PT-AND1", "3PT-AND1"}
             THEN "off"
        ELSE IF event_code = 1 /\ action_details \in {"2PT", "3PT"} THEN "on"
        ELSE IF event_code = 20 /\ action_code = 1 THEN "on"
        ELSE IF event_code = 20 /\ action_code = 2 THEN "off"
        ELSE "raise"

estimate_actual_time_remaining(row) ==
    LET inbound_delay == 2
        keeper_delay == 2
        tip_adjustment == 3
    IN  IF row.EVENTMSGTYPE = 12 /\ row.PERIOD \notin {2, 3, 4}
        THEN row.REMAINING_TIME - tip_adjustment
        ELSE IF row.EVENTMSGTYPE = 10 /\ row.PCTIMESTRING = <<12, 0>>
                /\ row.PERIOD = 1
        THEN row.REMAINING_TIME - tip_adjustment
        ELSE IF row.EVENTMSGTYPE = 10 /\ row.PCTIMESTRING = <<5, 0>>
                /\ row.PERIOD > 4
        THEN row.REMAINING_TIME - tip_adjustment
        ELSE IF ~row.CLOCK_ON THEN row.REMAINING_TIME
        ELSE IF row.EVENTMSGTYPE = 20 THEN row.REMAINING_TIME - inbound_delay
        ELSE row.REMAINING_TIME + keeper_delay

\* the clock left running, whatever the row
get_shotclock_value_unadjusted(row, unadjusted_shotclock, blocked) ==
    unadjusted_shotclock

\* the offensive rebound resets the clock whether or not a block came before
get_shotclock_value_block_ignored(row, unadjusted_shotclock, blocked) ==
    LET event_code  == row.EVENTMSGTYPE
        action_code == row.EVENTMSGACTIONTYPE
        details     == row.ACTION_DETAILS
    IN  IF event_code = 4 /\ details \in {"OFFENSIVE", "OFFENSIVE-TEAM"}
        THEN 14
        ELSE IF event_code = 6 /\ action_code \in {1, 2, 6, 28}
                /\ unadjusted_shotclock < 14
        THEN 14
        ELSE IF event_code = 6 /\ action_code \in {14, 9, 15, 8} THEN 24
        ELSE unadjusted_shotclock

get_shotclock_value(row, unadjusted_shotclock, blocked) ==
    LET event_code  == row.EVENTMSGTYPE
        action_code == row.EVENTMSGACTIONTYPE
        details     == row.ACTION_DETAILS
    IN  IF event_code = 4 /\ details \in {"OFFENSIVE", "OFFENSIVE-TEAM"}
           /\ ~blocked
        THEN 14
        ELSE IF event_code = 6 /\ action_code \in {1, 2, 6, 28}
                /\ unadjusted_shotclock < 14
        THEN 14
        ELSE IF event_code = 6 /\ action_code \in {14, 9, 15, 8} THEN 24
        ELSE unadjusted_shotclock

\* ------------------------------------------------------------------------
\* The raw table handed to PBPHandler(pbp_df): rows of the provider's log
\* ------------------------------------------------------------------------

Teams == {1, 2}

Player(t) == 10 * t + 1

Opp(t) == CHOOSE u \in Teams : u # t

BlankRow ==
    [EVENTNUM |-> 0, PERIOD |-> 1, PCTIMESTRING |-> <<0, 0>>,
     EVENTMSGTYPE |-> 0, EVENTMSGACTIONTYPE |-> 0,
     HOMEDESCRIPTION |-> {}, VISITORDESCRIPTION |-> {},
     PLAYER1_ID |-> 0, PLAYER1_TEAM_ID |-> NaN, PLAYER1_NAME |-> "null",
     PLAYER2_ID |-> 0,
     PLAYER3_ID |-> 0, PLAYER3_TEAM_ID |-> NaN, PLAYER3_NAME |-> "null",
     ACTION_DETAILS |-> "", ELAPSED_TIME |-> NaN, REMAINING_TIME |-> NaN,
     POSS |-> NaN, POSS_ID |-> NaN, DEFENSE |-> NaN, CLOCK_ON |-> FALSE,
     OPPORTUNITY_NUM |-> NaN, ACTUAL_REMAINING_TIME |-> NaN,
     SHOTCLOCK |-> NaN, SET_DEFENSE |-> FALSE,
     HOME_LINEUP |-> <<>>, AWAY_LINEUP |-> <<>>,
     HOME_LINE_HASH |-> "", AWAY_LINE_HASH |-> ""]

\* an event of a player of team t
ByPlayer(t, type, action, markers) ==
    [BlankRow EXCEPT !.EVENTMSGTYPE = type, !.EVENTMSGACTIONTYPE = action,
                     !.PLAYER1_ID = Player(t), !.PLAYER1_TEAM_ID = t,
                     !.PLAYER1_NAME = "NAME",
                     !.HOMEDESCRIPTION = IF t = 1 THEN markers ELSE {},
                     !.VISITORDESCRIPTION = IF t = 1 THEN {} ELSE markers]

\* an event charged to team t itself: the team id sits in PLAYER1_ID
ByTeam(t, type, action, markers) ==
    [BlankRow EXCEPT !.EVENTMSGTYPE = type, !.EVENTMSGACTIONTYPE = action,
                     !.PLAYER1_ID = t,
                     !.HOMEDESCRIPTION = IF t = 1 THEN markers ELSE {},
                     !.VISITORDESCRIPTION = IF t = 1 THEN {} ELSE markers]

\* the provider's rows, by kind of event
Event(kind, t) ==
    CASE kind = "START"     -> [BlankRow EXCEPT !.EVENTMSGTYPE = 12]
      [] kind = "END"       -> [BlankRow EXCEPT !.EVENTMSGTYPE = 13]
      [] kind = "TIMEOUT"   -> ByTeam(t, 9, 1, {"TEXT"})
      [] kind = "SUB"       -> ByPlayer(t, 8, 0, {"TEXT"})
      [] kind = "OTHER"     -> [BlankRow EXCEPT !.EVENTMSGTYPE = 19]
      [] kind = "JUMP"      ->
            [ByPlayer(t, 10, 0, {"TEXT"}) EXCEPT
                !.PLAYER2_ID = Player(Opp(t)), !.PLAYER3_ID = Player(t),
                !.PLAYER3_TEAM_ID = t, !.PLAYER3_NAME = "NAME"]
      [] kind = "JUMP_OOB"  ->
            [ByPlayer(t, 10, 0, {"TEXT"}) EXCEPT
                !.PLAYER2_ID = Player(Opp(t)), !.PLAYER3_ID = t]
      [] kind = "VIOL_JUMP" -> ByPlayer(t, 7, 4, {"TEXT"})
      [] kind = "MADE2"     -> ByPlayer(t, 1, 1, {"TEXT"})
      [] kind = "MADE3"     -> ByPlayer(t, 1, 1, {"3PT"})
      [] kind = "MADE_PUT"  -> ByPlayer(t, 1, 72, {"TEXT"})
      [] kind = "MISS"      -> ByPlayer(t, 2, 1, {"MISS"})
      [] kind = "MISS_PUT"  -> ByPlayer(t, 2, 72, {"MISS"})
      [] kind = "MISS_BLK"  ->
            [ByPlayer(t, 2, 1, {"MISS"}) EXCEPT
                !.PLAYER3_ID = Player(Opp(t)), !.PLAYER3_TEAM_ID = Opp(t),
                !.PLAYER3_NAME = "NAME",
                !.HOMEDESCRIPTION = IF t = 1 THEN {"MISS"} ELSE {"BLOCK"},
                !.VISITORDESCRIPTION = IF t = 1 THEN {"BLOCK"} ELSE {"MISS"}]
      [] kind = "FT_1OF1"      -> ByPlayer(t, 3, 10, {"TEXT"})
      [] kind = "FT_1OF1_MISS" -> ByPlayer(t, 3, 10, {"MISS"})
      [] kind = "FT_1OF2"      -> ByPlayer(t, 3, 11, {"TEXT"})
      [] kind = "FT_1OF2_MISS" -> ByPlayer(t, 3, 11, {"MISS"})
      [] kind = "FT_2OF2"      -> ByPlayer(t, 3, 12, {"TEXT"})
      [] kind = "FT_2OF2_MISS" -> ByPlayer(t, 3, 12, {"MISS"})
      [] kind = "REB"       -> ByPlayer(t, 4, 0, {"TEXT"})
      [] kind = "REB_TEAM"  -> ByTeam(t, 4, 0, {"TEXT"})
      [] kind = "REB_FAKE"  -> ByTeam(t, 4, 1, {"TEXT"})
      [] kind = "TO_LIVE"   ->
            [ByPlayer(t, 5, 1, {"TEXT"}) EXCEPT !.PLAYER2_ID = Player(Opp(t))]
      [] kind = "TO_DEAD"   -> ByPlayer(t, 5, 4, {"TEXT"})
      [] kind = "TO_TEAM"   -> ByTeam(t, 5, 11, {"TEXT"})
      [] kind = "TO_ODD"    -> ByPlayer(t, 5, 99, {"TEXT"})
      [] kind = "REB_ODD"   -> ByPlayer(t, 4, 2, {"TEXT"})
      [] kind = "TO_EXCESS" -> [BlankRow EXCEPT !.EVENTMSGTYPE = 5,
                                               !.EVENTMSGACTIONTYPE = 42]
      [] kind = "FOUL"      -> ByPlayer(t, 6, 1, {"TEXT"})
      [] kind = "FOUL_SHOOT" -> ByPlayer(t, 6, 2, {"TEXT"})
      [] kind = "FLAGRANT"  -> ByPlayer(t, 6, 14, {"TEXT"})

RawRow(ev, when, num) ==
    [Event(ev[1], ev[2]) EXCEPT !.EVENTNUM = num, !.PERIOD = when[1],
                                !.PCTIMESTRING = when[2]]

\* non-decreasing sequences of length n over lo..m: the rows of a raw table
\* come in chronological order
RECURSIVE MonoSeqs(_, _, _)
MonoSeqs(n, lo, m) ==
    IF n = 0 THEN {<<>>}
    ELSE UNION {{<<x>> \o s : s \in MonoSeqs(n - 1, x, m)} : x \in lo..m}

\* PBPHandler.__init__: team_ids, the non-null values of PLAYER1_TEAM_ID in
\* order of first appearance
team_ids(table) ==
    LET P(r) == ~isnan(r.PLAYER1_TEAM_ID)
        idx == Where(table, P)
    IN  Unique([k \in 1..Len(idx) |-> table[idx[k]].PLAYER1_TEAM_ID])

\* PBPHandler.__init__ on a table of the given events at the given times;
\* the constructor raises (no handler exists) unless two teams appear
Construct(Alphabet, Timeline, MaxRows) ==
    \E n \in 1..MaxRows :
      \E ev \in [1..n -> Alphabet] :
        \E tm \in MonoSeqs(n, 1, Len(Timeline)) :
          \E table \in {[i \in 1..n |-> RawRow(ev[i], Timeline[tm[i]], i)]} :
            \E ids \in {team_ids(table)} :
              /\ Len(ids) >= 2
              /\ raw_df = table
              /\ df = table
              /\ inverter = (ids[1] :> ids[2]) @@ (ids[2] :> ids[1])
              /\ pc = "_notify_excess_timeout_technicals"
              /\ failure = "none"
              /\ verify = FALSE
              /\ output_file = <<>> /\ finished_games_file = <<>>
              /\ loop_i = 0 /\ curr_game_pbp = <<>>
              /\ dpc = "unused" /\ crashes = 0
              /\ home_rotation_df = <<>> /\ away_rotation_df = <<>>
              /\ fill = "PERSON_ID" /\ output_dic = <<>>

\* ------------------------------------------------------------------------
\* preprocess(): the passes, in the order of the call list
\* ------------------------------------------------------------------------

Ok(d) == [d |-> d, e |-> "none"]

Raise(d, e) == [d |-> d, e |-> e]

\* a pass writing through to the raw table, as if self.raw_df were self.df
Ran_aliased(this, next, res) ==
    /\ pc = this
    /\ \E r \in {res} :
         /\ df' = r.d
         /\ raw_df' = r.d
         /\ pc' = IF r.e = "none" THEN next ELSE "failed"
         /\ failure' = r.e
    /\ UNCHANGED <<inverter, verify, dvars, lvars>>

\* a pass that hands back the table of the constructor when it raises
Ran_restoring(this, next, res) ==
    /\ pc = this
    /\ \E r \in {res} :
         /\ df' = IF r.e = "none" THEN r.d ELSE raw_df
         /\ pc' = IF r.e = "none" THEN next ELSE "failed"
         /\ failure' = r.e
    /\ UNCHANGED <<raw_df, inverter, verify, dvars, lvars>>

\* a pass ran on self.df: it returned (next pass) or raised (preprocess ends)
Ran(this, next, res) ==
    /\ pc = this
    /\ \E r \in {res} :
         /\ df' = r.d
         /\ pc' = IF r.e = "none" THEN next ELSE "failed"
         /\ failure' = r.e
    /\ UNCHANGED <<raw_df, inverter, verify, dvars, lvars>>

excess_timeout_technicals(d) ==
    IF \E i \in DOMAIN d :
          d[i].EVENTMSGTYPE = 5 /\ d[i].EVENTMSGACTIONTYPE = 42
    THEN Raise(d, "ExcessTimeout") ELSE Ok(d)

_notify_excess_timeout_technicals ==
    Ran("_notify_excess_timeout_technicals", "_assign_elapsed_time",
        excess_timeout_technicals(df))

elapsed_time_column(d) ==
    [i \in DOMAIN d |-> [d[i] EXCEPT !.ELAPSED_TIME = get_elapsed_time(d[i])]]

_assign_elapsed_time ==
    Ran("_assign_elapsed_time", "_assign_remaining_quarter_time",
        Ok(elapsed_time_column(df)))

remaining_time_column(d) ==
    [i \in DOMAIN d |->
        [d[i] EXCEPT !.REMAINING_TIME = timestring_to_seconds(d[i].PCTIMESTRING)]]

_assign_remaining_quarter_time ==
    Ran("_assign_remaining_quarter_time", "_ft_results",
        Ok(remaining_time_column(df)))

\* temp(desc) of _ft_results
ft_temp(desc) ==
    IF desc = {} THEN "" ELSE IF "MISS" \in desc THEN "MISSED" ELSE "MADE"

ft_results(d) ==
    [i \in DOMAIN d |->
        IF d[i].EVENTMSGTYPE = 3
        THEN [d[i] EXCEPT !.ACTION_DETAILS =
                 ft_temp(d[i].HOMEDESCRIPTION) \o ft_temp(d[i].VISITORDESCRIPTION)]
        ELSE d[i]]

_ft_results == Ran("_ft_results", "_rebound_type", Ok(ft_results(df)))

\* a backward scan that stops at missed field goals and missed final free
\* throws only
RECURSIVE last_miss_tag_final_only(_, _, _)
last_miss_tag_final_only(d, q, rebounding_team_id) ==
    IF q < 2 THEN ""
    ELSE IF d[q].EVENTMSGTYPE = 2
            \/ (/\ d[q].EVENTMSGTYPE = 3 /\ d[q].ACTION_DETAILS = "MISSED"
                /\ d[q].EVENTMSGACTIONTYPE \in {10, 12, 15})
         THEN IF eq(d[q].PLAYER1_TEAM_ID, rebounding_team_id)
              THEN "OFFENSIVE" ELSE "DEFENSIVE"
         ELSE last_miss_tag_final_only(d, q - 1, rebounding_team_id)

\* the tag _rebound_type computes for the rebound at position p (pandas
\* label p-1): the backward scan range(i-1, 0, -1) visits positions p-1
\* down to 2; "" when the scan ends without a miss (nothing is appended)
RECURSIVE last_miss_tag(_, _, _)
last_miss_tag(d, q, rebounding_team_id) ==
    IF q < 2 THEN ""
    ELSE IF d[q].EVENTMSGTYPE = 2
            \/ (d[q].EVENTMSGTYPE = 3 /\ d[q].ACTION_DETAILS = "MISSED")
         THEN IF eq(d[q].PLAYER1_TEAM_ID, rebounding_team_id)
              THEN "OFFENSIVE" ELSE "DEFENSIVE"
         ELSE last_miss_tag(d, q - 1, rebounding_team_id)

rebound_tag(d, p) ==
    LET rebounding_team_id == IF d[p].PLAYER1_NAME # "NAME"
                              THEN d[p].PLAYER1_ID
                              ELSE d[p].PLAYER1_TEAM_ID
    IN  last_miss_tag(d, p - 1, rebounding_team_id)

\* rebound_types: the list the loop over true_rebs_df builds
RECURSIVE rebound_types(_, _, _)
rebound_types(d, rebs, k) ==
    IF k > Len(rebs) THEN <<>>
    ELSE LET tag == rebound_tag(d, rebs[k])
         IN  (IF tag = "" THEN <<>> ELSE <<tag>>) \o rebound_types(d, rebs, k + 1)

IsTrueReb(r) == r.EVENTMSGTYPE = 4 /\ r.EVENTMSGACTIONTYPE = 0

rebound_type(d) ==
    LET rebs == Where(d, IsTrueReb)
        tags == rebound_types(d, rebs, 1)
    IN  IF Len(tags) # Len(rebs) THEN Raise(d, "ValueError")
        ELSE LET pos(i) == CHOOSE k \in 1..Len(rebs) : rebs[k] = i
                 tagged == [i \in DOMAIN d |->
                     IF IsTrueReb(d[i])
                     THEN [d[i] EXCEPT !.ACTION_DETAILS = tags[pos(i)]]
                     ELSE d[i]]
                 faked == [i \in DOMAIN d |->
                     IF tagged[i].EVENTMSGTYPE = 4
                        /\ tagged[i].EVENTMSGACTIONTYPE = 1
                     THEN [tagged[i] EXCEPT !.ACTION_DETAILS = "FAKE"]
                     ELSE tagged[i]]
             IN  Ok([i \in DOMAIN d |->
                     IF IsTrueReb(d[i]) /\ d[i].PLAYER1_NAME = "null"
                     THEN [faked[i] EXCEPT !.ACTION_DETAILS =
                              faked[i].ACTION_DETAILS \o "-TEAM"]
                     ELSE faked[i]])

_rebound_type == Ran("_rebound_type", "_shot_type", rebound_type(df))

\* temp(desc) of _shot_type
shot_temp(desc) ==
    IF desc = {} \/ "BLOCK" \in desc THEN ""
    ELSE IF "3PT" \in desc THEN "3PT" ELSE "2PT"

shot_type(d) ==
    [i \in DOMAIN d |->
        IF d[i].EVENTMSGTYPE \in {1, 2}
        THEN [d[i] EXCEPT !.ACTION_DETAILS =
                 shot_temp(d[i].HOMEDESCRIPTION)
                     \o shot_temp(d[i].VISITORDESCRIPTION)]
        ELSE d[i]]

_shot_type == Ran("_shot_type", "_handle_simultaneous_rebs_TOs", Ok(shot_type(df)))

\* a reordering that writes one of the two rows only
\* the two rows are left where they were
swap_rows_none(d, a, b) == d

swap_rows_one_written(d, a, b) == [d EXCEPT ![a] = d[b]]

\* self.df.loc[reordered_indices, :] = reordered_df for the rows at a and b
\* put in the other order
swap_rows(d, a, b) == [d EXCEPT ![a] = d[b], ![b] = d[a]]

\* the fold of _handle_simultaneous_rebs_TOs over to_timestamps[k..]
RECURSIVE simultaneous_rebs_TOs(_, _, _)
simultaneous_rebs_TOs(d, to_timestamps, k) ==
    IF k > Len(to_timestamps) THEN d
    ELSE LET t == to_timestamps[k]
             P(r) == r.ELAPSED_TIME = t /\ r.EVENTMSGTYPE \in {4, 5}
             sim == Where(d, P)
             \* sort_values(by="EVENTMSGTYPE") of two adjacent rows
             swapped ==
                 IF Len(sim) = 2 /\ sim[2] - sim[1] <= 1
                    /\ d[sim[1]].EVENTMSGTYPE > d[sim[2]].EVENTMSGTYPE
                 THEN swap_rows(d, sim[1], sim[2])
                 ELSE d
         IN  simultaneous_rebs_TOs(swapped, to_timestamps, k + 1)

handle_simultaneous_rebs_TOs(d) ==
    LET IsTO(r) == r.EVENTMSGTYPE = 5
        tos == Where(d, IsTO)
        to_timestamps == Unique([k \in 1..Len(tos) |-> d[tos[k]].ELAPSED_TIME])
    IN  simultaneous_rebs_TOs(d, to_timestamps, 1)

_handle_simultaneous_rebs_TOs ==
    Ran("_handle_simultaneous_rebs_TOs", "_add_and1s2",
        Ok(handle_simultaneous_rebs_TOs(df)))

\* the values _shot_type can write, and str.contains("AND1") on the column
ShotDetails == {a \o b : a \in {"", "2PT", "3PT"}, b \in {"", "2PT", "3PT"}}

ContainsAND1(details) == details \in {x \o "-AND1" : x \in ShotDetails}

\* no foul is looked for
has_shooting_foul_never(d, i) == FALSE

\* shooting_foul_df.shape[0] > 0 for the made shot at position i
has_shooting_foul(d, i) ==
    \E j \in DOMAIN d :
        /\ j >= i
        /\ d[j].ELAPSED_TIME = d[i].ELAPSED_TIME
        /\ d[j].EVENTMSGTYPE = 6
        /\ d[j].EVENTMSGACTIONTYPE \in {1, 2, 14}
        /\ ne(d[j].PLAYER1_TEAM_ID, d[i].PLAYER1_TEAM_ID)

add_and1s2(d) ==
    LET tagged == [i \in DOMAIN d |->
            IF d[i].EVENTMSGTYPE = 1 /\ has_shooting_foul(d, i)
            THEN [d[i] EXCEPT !.ACTION_DETAILS = d[i].ACTION_DETAILS \o "-AND1"]
            ELSE d[i]]
        and1_at(t) == \E j \in DOMAIN tagged :
            tagged[j].ELAPSED_TIME = t /\ ContainsAND1(tagged[j].ACTION_DETAILS)
    IN  [i \in DOMAIN d |->
            IF tagged[i].EVENTMSGTYPE = 3 /\ tagged[i].EVENTMSGACTIONTYPE = 10
               /\ ~and1_at(tagged[i].ELAPSED_TIME)
            THEN [tagged[i] EXCEPT !.EVENTMSGACTIONTYPE = 100]
            ELSE tagged[i]]

_add_and1s2 == Ran("_add_and1s2", "_order_pbp", Ok(add_and1s2(df)))

\* order_putback_frenzy(df): sub is the sub-table handed over, a sequence of
\* [i |-> label, row |-> row] in the order of the concatenation; the result
\* is [e |-> "none" or the exception, out |-> the table returned]
\* no row counted as a made shot
IsScore_none(x) == FALSE

IsScore(x) == x.row.EVENTMSGTYPE = 1
IsShot(x) == x.row.EVENTMSGTYPE = 2
IsOreb(x) == x.row.EVENTMSGTYPE = 4 /\ x.row.ACTION_DETAILS = "OFFENSIVE"
\* no row counted as a defensive rebound
IsDreb_none(x) == FALSE

IsDreb(x) == x.row.EVENTMSGTYPE = 4 /\ x.row.ACTION_DETAILS = "DEFENSIVE"

RowsOf(sub) == [k \in 1..Len(sub) |-> sub[k].row]

\* The four resolution rules of order_putback_frenzy: each gives
\* [e |-> "none" or the exception, dics |-> output_dics]
Resolved(dics) == [e |-> "none", dics |-> dics]

Unresolved(x) == [e |-> x, dics |-> <<>>]

\* the make and the rebound ordered whatever their teams
bucket_and_dreb_any_team(score_dics, dreb_dics, shot_dics, oreb_dics) ==
    Resolved(Reverse(<<score_dics[1], dreb_dics[1]>>))

\* both a made basket and a defensive rebound
bucket_and_dreb(score_dics, dreb_dics, shot_dics, oreb_dics) ==
    IF eq(score_dics[1].PLAYER1_TEAM_ID, dreb_dics[1].PLAYER1_TEAM_ID)
    THEN IF zip_lists_ok(shot_dics, oreb_dics)
         THEN Resolved(Reverse(<<score_dics[1], dreb_dics[1]>>
                               \o zip_lists(shot_dics, oreb_dics)))
         ELSE Unresolved("ValueError")
    ELSE Unresolved("BucketDrebOpposing")

\* neither a made basket nor a defensive rebound
no_bucket_no_dreb(shot_dics, oreb_dics) ==
    IF Len(oreb_dics) >= Len(shot_dics)
    THEN IF zip_lists_ok(oreb_dics, shot_dics)
         THEN Resolved(zip_lists(oreb_dics, shot_dics))
         ELSE Unresolved("ValueError")
    ELSE IF zip_lists_ok(shot_dics, oreb_dics)
         THEN Resolved(zip_lists(shot_dics, oreb_dics))
         ELSE Unresolved("ValueError")

\* the defensive rebound always left last
dreb_no_bucket_never_first(dreb_dics, shot_dics, oreb_dics) ==
    IF zip_lists_ok(shot_dics, oreb_dics)
    THEN Resolved(Reverse(<<dreb_dics[1]>> \o zip_lists(shot_dics, oreb_dics)))
    ELSE Unresolved("ValueError")

\* a defensive rebound and no made basket
dreb_no_bucket(dreb_dics, shot_dics, oreb_dics) ==
    IF zip_lists_ok(shot_dics, oreb_dics)
    THEN LET once == Reverse(<<dreb_dics[1]>> \o zip_lists(shot_dics, oreb_dics))
         IN  IF Len(shot_dics) = 1
                /\ eq(shot_dics[1].PLAYER1_TEAM_ID, dreb_dics[1].PLAYER1_TEAM_ID)
             THEN Resolved(Reverse(once)) ELSE Resolved(once)
    ELSE Unresolved("ValueError")

\* the make put first: the list is not reversed
bucket_no_dreb_make_first(score_dics, shot_dics, oreb_dics) ==
    IF zip_lists_ok(oreb_dics, shot_dics)
    THEN Resolved(<<score_dics[1]>> \o zip_lists(oreb_dics, shot_dics))
    ELSE Unresolved("ValueError")

\* a made basket and no defensive rebound
bucket_no_dreb(score_dics, shot_dics, oreb_dics) ==
    IF zip_lists_ok(oreb_dics, shot_dics)
    THEN Resolved(Reverse(<<score_dics[1]>> \o zip_lists(oreb_dics, shot_dics)))
    ELSE Unresolved("ValueError")

\* a reordering that turns every cluster round, adjacent rows or not
order_putback_frenzy_reversing(sub) ==
    [e |-> "none",
     out |-> [k \in 1..Len(sub) |->
                 [i |-> sub[k].i, row |-> sub[Len(sub) + 1 - k].row]]]

order_putback_frenzy(sub) ==
    LET labels == {sub[k].i : k \in 1..Len(sub)}
        lo == CHOOSE x \in labels : \A y \in labels : x <= y
        hi == CHOOSE x \in labels : \A y \in labels : x >= y
        score_dics == RowsOf(SelectSeq(sub, IsScore))
        shot_dics == RowsOf(SelectSeq(sub, IsShot))
        oreb_dics == RowsOf(SelectSeq(sub, IsOreb))
        dreb_dics == RowsOf(SelectSeq(sub, IsDreb))
        Same == [e |-> "none", out |-> sub]
        \* output_df with output_df.index = output_df_indices
        Out(res) == IF res.e # "none" THEN [e |-> res.e, out |-> sub]
                    ELSE [e |-> "none",
                          out |-> [k \in 1..Len(res.dics) |->
                                      [i |-> lo + k - 1, row |-> res.dics[k]]]]
    IN  IF labels # lo..hi THEN Same
        ELSE IF Len(dreb_dics) + Len(oreb_dics) = 0 THEN Same
        ELSE IF Len(score_dics) > 1 THEN Same
        ELSE IF Len(dreb_dics) > 1 THEN [e |-> "TooManyDrebs", out |-> sub]
        ELSE IF Len(score_dics) + Len(dreb_dics) = 0
                /\ Len(oreb_dics) = 1 /\ Len(shot_dics) = 1
        THEN Same
        ELSE IF Len(score_dics) = 1 /\ Len(dreb_dics) = 1
        THEN Out(bucket_and_dreb(score_dics, dreb_dics, shot_dics, oreb_dics))
        ELSE IF Len(score_dics) + Len(dreb_dics) = 0
        THEN Out(no_bucket_no_dreb(shot_dics, oreb_dics))
        ELSE IF Len(score_dics) = 0
        THEN Out(dreb_no_bucket(dreb_dics, shot_dics, oreb_dics))
        ELSE Out(bucket_no_dreb(score_dics, shot_dics, oreb_dics))

\* curr_sub_df of _order_pbp for one timestamp: missed shots, offensive
\* rebounds, made shots, defensive rebounds, each in table order
curr_sub_df(d, time) ==
    LET At(P(_)) == LET Q(r) == r.ELAPSED_TIME = time /\ P(r)
                        idx == Where(d, Q)
                    IN  [k \in 1..Len(idx) |-> [i |-> idx[k], row |-> d[idx[k]]]]
        Shot(r) == r.EVENTMSGTYPE = 2
        Oreb(r) == r.EVENTMSGTYPE = 4 /\ r.ACTION_DETAILS = "OFFENSIVE"
        Score(r) == r.EVENTMSGTYPE = 1
        Dreb(r) == r.EVENTMSGTYPE = 4 /\ r.ACTION_DETAILS = "DEFENSIVE"
    IN  At(Shot) \o At(Oreb) \o At(Score) \o At(Dreb)

\* self.df.loc[re_ordered.index, :] = re_ordered
put_rows(d, sub) ==
    [i \in DOMAIN d |->
        IF \E k \in 1..Len(sub) : sub[k].i = i
        THEN sub[CHOOSE k \in 1..Len(sub) : sub[k].i = i].row
        ELSE d[i]]

\* the loop of _order_pbp over shot_times[k..]
RECURSIVE order_clusters(_, _, _)
order_clusters(d, shot_times, k) ==
    IF k > Len(shot_times) THEN Ok(d)
    ELSE LET sub == curr_sub_df(d, shot_times[k])
         IN  IF Len(sub) > 1
             THEN LET re_ordered == order_putback_frenzy(sub)
                  IN  IF re_ordered.e # "none" THEN Raise(d, re_ordered.e)
                      ELSE order_clusters(put_rows(d, re_ordered.out),
                                          shot_times, k + 1)
             ELSE order_clusters(d, shot_times, k + 1)

order_pbp(d) ==
    LET P(r) == r.EVENTMSGTYPE \in {1, 2} /\ ~ContainsAND1(r.ACTION_DETAILS)
        shots == Where(d, P)
        shot_times == Unique([k \in 1..Len(shots) |-> d[shots[k]].ELAPSED_TIME])
    IN  order_clusters(d, shot_times, 1)

_order_pbp == Ran("_order_pbp", "_adjust_putback_time", order_pbp(df))

\* the inner scan of _adjust_putback_time, range(i-1, 0, -1): the nearest
\* position q..2 holding a missed shot or a free throw, 0 when there is none
RECURSIVE find_rebounded_shot(_, _)
find_rebounded_shot(d, q) ==
    IF q < 2 THEN 0
    ELSE IF d[q].EVENTMSGTYPE \in {2, 3} THEN q
    ELSE find_rebounded_shot(d, q - 1)

\* the loop of _adjust_putback_time over putback_df (the rows snap at the
\* positions idx[k..]); j is the loop variable of the inner scan, which
\* keeps its value from one putback to the next (0: not bound yet)
RECURSIVE adjust_putbacks(_, _, _, _, _)
adjust_putbacks(d, snap, idx, k, j) ==
    IF k > Len(idx) THEN Ok(d)
    ELSE LET reb_delay == 2
             putback_delay == 1
             p == idx[k]
             skip == adjust_putbacks(d, snap, idx, k + 1, j)
         IN  IF snap[p].ACTION_DETAILS \in {"2PT-AND1", "3PT-AND1"} THEN skip
             ELSE IF p - 1 < 1 THEN Raise(d, "KeyError")
             ELSE IF ~(d[p - 1].EVENTMSGTYPE = 4
                       /\ d[p - 1].ACTION_DETAILS = "OFFENSIVE") THEN skip
             ELSE LET found == find_rebounded_shot(d, p - 1)
                      j2 == IF p - 1 < 2 THEN j
                            ELSE IF found # 0 THEN found ELSE 2
                  IN  IF j2 = 0 THEN Raise(d, "UnboundLocalError")
                      ELSE IF d[j2].EVENTMSGTYPE = 3
                      THEN adjust_putbacks(d, snap, idx, k + 1, j2)
                      ELSE IF d[j2].REMAINING_TIME - d[p - 1].REMAINING_TIME > 2
                      THEN LET new_reb_rem == d[j2].REMAINING_TIME - reb_delay
                               new_reb_el == d[j2].ELAPSED_TIME + 10 * reb_delay
                               new_shot_rem == new_reb_rem - putback_delay
                               new_shot_el == new_reb_el + 10 * putback_delay
                               d2 == [d EXCEPT
                                   ![p - 1].PCTIMESTRING =
                                       seconds_to_timestring(new_reb_rem),
                                   ![p - 1].ELAPSED_TIME = new_reb_el,
                                   ![p - 1].REMAINING_TIME = new_reb_rem,
                                   ![p].PCTIMESTRING =
                                       seconds_to_timestring(new_shot_rem),
                                   ![p].ELAPSED_TIME = new_shot_el,
                                   ![p].REMAINING_TIME = new_shot_rem]
                           IN  adjust_putbacks(d2, snap, idx, k + 1, j2)
                      ELSE adjust_putbacks(d, snap, idx, k + 1, j2)

adjust_putback_time(d) ==
    LET putback_codes == {72, 97, 87, 107}
        P(r) == r.EVENTMSGTYPE \in {1, 2} /\ r.EVENTMSGACTIONTYPE \in putback_codes
    IN  adjust_putbacks(d, d, Where(d, P), 1, 0)

_adjust_putback_time ==
    Ran("_adjust_putback_time", "_identify_TO_team", adjust_putback_time(df))

identify_TO_team(d) ==
    LET team_to_codes == {9, 10, 11}
    IN  [i \in DOMAIN d |->
            IF d[i].EVENTMSGTYPE = 5 /\ d[i].EVENTMSGACTIONTYPE \in team_to_codes
               /\ isnan(d[i].PLAYER1_TEAM_ID)
            THEN [d[i] EXCEPT !.PLAYER1_TEAM_ID = d[i].PLAYER1_ID]
            ELSE d[i]]

_identify_TO_team ==
    Ran("_identify_TO_team", "_add_inbounds", Ok(identify_TO_team(df)))

\* the rows of d with new(d[i]) put right after every row satisfying P:
\* rows added under the labels i + 0.5, then sort_index and reset_index
RECURSIVE InsertAfter(_, _, _, _)
InsertAfter(d, P(_), new(_), i) ==
    IF i > Len(d) THEN <<>>
    ELSE <<d[i]>> \o (IF P(d[i]) THEN <<new(d[i])>> ELSE <<>>)
                  \o InsertAfter(d, P, new, i + 1)

\* the rows added at the end of the table (before the sort) for idx[1..n]
Appended(d, idx, n, new(_)) == [k \in 1..n |-> new(d[idx[k]])]

\* an inbound row handed to the team that has just scored
inbound_row_same_team(shot_row, action) ==
    [shot_row EXCEPT !.EVENTMSGTYPE = 20,
                     !.EVENTMSGACTIONTYPE = action,
                     !.HOMEDESCRIPTION = {},
                     !.VISITORDESCRIPTION = {},
                     !.PLAYER1_ID = shot_row.PLAYER1_TEAM_ID,
                     !.PLAYER1_NAME = "null",
                     !.PLAYER1_TEAM_ID = NaN,
                     !.PLAYER2_ID = 0,
                     !.ACTION_DETAILS = ""]

\* inbound_row of _add_inbounds for a scoring row and a clock code
inbound_row(shot_row, action) ==
    [shot_row EXCEPT !.EVENTMSGTYPE = 20,
                     !.EVENTMSGACTIONTYPE = action,
                     !.HOMEDESCRIPTION = {},
                     !.VISITORDESCRIPTION = {},
                     !.PLAYER1_ID = inverter[shot_row.PLAYER1_TEAM_ID],
                     !.PLAYER1_NAME = "null",
                     !.PLAYER1_TEAM_ID = NaN,
                     !.PLAYER2_ID = 0,
                     !.ACTION_DETAILS = ""]

\* one of the two loops of _add_inbounds: an inbound after every row
\* satisfying P; inverter[...] raises KeyError for a team it does not hold
add_inbounds_after(d, P(_), action(_)) ==
    LET idx == Where(d, P)
        new(r) == inbound_row(r, action(r))
        bad == {k \in 1..Len(idx) : d[idx[k]].PLAYER1_TEAM_ID \notin DOMAIN inverter}
    IN  IF bad # {}
        THEN LET first == CHOOSE k \in bad : \A x \in bad : k <= x
             IN  Raise(d \o Appended(d, idx, first - 1, new), "KeyError")
        ELSE Ok(InsertAfter(d, P, new, 1))

add_inbounds(d) ==
    LET MadeShot(r) == r.EVENTMSGTYPE = 1 /\ r.ACTION_DETAILS \in {"2PT", "3PT"}
        MadeFinalFT(r) == /\ r.EVENTMSGTYPE = 3
                          /\ r.EVENTMSGACTIONTYPE \in {10, 12, 15}
                          /\ r.ACTION_DETAILS = "MADE"
        \* time_off + 1
        ShotAction(r) == IF is_time_off_inbound(r) THEN 2 ELSE 1
        FTAction(r) == 2
        after_shots == add_inbounds_after(d, MadeShot, ShotAction)
    IN  IF after_shots.e # "none" THEN after_shots
        ELSE add_inbounds_after(after_shots.d, MadeFinalFT, FTAction)

_add_inbounds == Ran("_add_inbounds", "_propogate_margin", add_inbounds(df))

\* _propogate_margin rewrites SCOREMARGIN and SCORE only
_propogate_margin == Ran("_propogate_margin", "_get_jumpball_winner", Ok(df))

\* int(x) of a string written by str(int(...))
IdValues == {0} \cup Teams \cup {Player(t) : t \in Teams}

int(str) == CHOOSE n \in IdValues : ToString(n) = str

get_jumpball_winner(d) ==
    LET Bad(r) == r.EVENTMSGTYPE = 10 /\ r.PLAYER3_NAME # "null"
                  /\ isnan(r.PLAYER3_TEAM_ID)
        winners == [i \in DOMAIN d |->
            IF d[i].EVENTMSGTYPE = 10
            THEN [d[i] EXCEPT !.ACTION_DETAILS =
                     IF d[i].PLAYER3_NAME = "null"
                     THEN ToString(d[i].PLAYER3_ID)
                     ELSE ToString(d[i].PLAYER3_TEAM_ID)]
            ELSE d[i]]
        IsViolation(r) == r.EVENTMSGTYPE = 7 /\ r.EVENTMSGACTIONTYPE = 4
    IN  IF \E i \in DOMAIN d : Bad(d[i]) THEN Raise(d, "ValueError")
        ELSE IF \E i \in DOMAIN d :
                  IsViolation(d[i]) /\ d[i].PLAYER1_TEAM_ID \notin DOMAIN inverter
        THEN Raise(winners, "KeyError")
        ELSE Ok([i \in DOMAIN d |->
                IF IsViolation(winners[i])
                THEN [winners[i] EXCEPT
                        !.EVENTMSGTYPE = 10, !.EVENTMSGACTIONTYPE = 20,
                        !.ACTION_DETAILS =
                            ToString(inverter[winners[i].PLAYER1_TEAM_ID])]
                ELSE winners[i]])

_get_jumpball_winner ==
    Ran("_get_jumpball_winner", "_find_flagrant_to", get_jumpball_winner(df))

\* the rows that set curr_team_id in the inner loop of _find_flagrant_to
Identifies(r) ==
    \/ r.EVENTMSGTYPE \in {20, 5, 10}
    \/ r.EVENTMSGTYPE = 4 /\ r.ACTION_DETAILS \in {"DEFENSIVE-TEAM", "DEFENSIVE"}

identified_team(r) ==
    IF r.EVENTMSGTYPE = 20 THEN r.PLAYER1_ID
    ELSE IF r.EVENTMSGTYPE = 5 THEN inverter[r.PLAYER1_TEAM_ID]
    ELSE IF r.EVENTMSGTYPE = 4 /\ r.ACTION_DETAILS = "DEFENSIVE-TEAM"
    THEN r.PLAYER1_ID
    ELSE IF r.EVENTMSGTYPE = 4 /\ r.ACTION_DETAILS = "DEFENSIVE"
    THEN r.PLAYER1_TEAM_ID
    ELSE int(r.ACTION_DETAILS)

Unbound == -1

\* the loop of _find_flagrant_to over flagrant_df (positions idx[k..]);
\* curr_team_id keeps its value from one flagrant foul to the next.  The
\* inner loop has no break: it runs down to the first row of the table, so
\* the last assignment comes from the earliest identifying row
RECURSIVE flagrant_loop(_, _, _, _)
flagrant_loop(d, idx, k, curr_team_id) ==
    IF k > Len(idx) THEN Ok(d)
    ELSE LET p == idx[k]
             row == d[p]
             present_flag_to == \E x \in DOMAIN d :
                 /\ d[x].ELAPSED_TIME = row.ELAPSED_TIME
                 /\ d[x].EVENTMSGTYPE = 5
                 /\ eq(d[x].PLAYER1_ID, row.PLAYER1_ID)
             before == {x \in 1..(p - 1) : Identifies(d[x])}
             raises == \E x \in before :
                 d[x].EVENTMSGTYPE = 5 /\ d[x].PLAYER1_TEAM_ID \notin DOMAIN inverter
             earliest == CHOOSE x \in before : \A y \in before : x <= y
             team == IF before = {} THEN curr_team_id
                     ELSE identified_team(d[earliest])
         IN  IF present_flag_to THEN flagrant_loop(d, idx, k + 1, curr_team_id)
             ELSE IF raises THEN Raise(d, "KeyError")
             ELSE IF team = Unbound THEN Raise(d, "UnboundLocalError")
             ELSE IF eq(team, row.PLAYER1_TEAM_ID)
             THEN Ok([d EXCEPT ![p].ACTION_DETAILS = "TO"])
             ELSE flagrant_loop(d, idx, k + 1, team)

find_flagrant_to(d) ==
    LET P(r) == r.EVENTMSGTYPE = 6 /\ r.EVENTMSGACTIONTYPE = 14
    IN  flagrant_loop(d, Where(d, P), 1, Unbound)

_find_flagrant_to ==
    Ran("_find_flagrant_to", "_double_turnovers", find_flagrant_to(df))

\* only the explicit turnovers are doubled
double_turnovers_explicit_only(d) ==
    LET IsTO(r) == r.EVENTMSGTYPE = 5
        copy(r) == [r EXCEPT !.EVENTMSGTYPE = 0]
    IN  InsertAfter(d, IsTO, copy, 1)

double_turnovers(d) ==
    LET IsTO(r) == \/ r.EVENTMSGTYPE = 5
                   \/ r.EVENTMSGTYPE = 6 /\ r.ACTION_DETAILS = "TO"
        copy(r) == [r EXCEPT !.EVENTMSGTYPE = 0]
    IN  InsertAfter(d, IsTO, copy, 1)

_double_turnovers ==
    Ran("_double_turnovers", "_assign_possession", Ok(double_turnovers(df)))

\* ------------------------------------------------------------------------
\* _assign_possession
\* ------------------------------------------------------------------------

IsDrebRow(r) ==
    r.EVENTMSGTYPE = 4 /\ r.ACTION_DETAILS \in {"DEFENSIVE", "DEFENSIVE-TEAM"}

\* PLAYER1_TEAM_ID, or PLAYER1_ID where the team id is null
team_or_id(r) == IF isnan(r.PLAYER1_TEAM_ID) THEN r.PLAYER1_ID ELSE r.PLAYER1_TEAM_ID

\* defensive rebounds and inbounds start a possession
poss_rebounds_inbounds(d) ==
    [i \in DOMAIN d |->
        IF IsDrebRow(d[i]) THEN [d[i] EXCEPT !.POSS = team_or_id(d[i])]
        ELSE IF d[i].EVENTMSGTYPE = 20 THEN [d[i] EXCEPT !.POSS = d[i].PLAYER1_ID]
        ELSE d[i]]

\* the dead-ball copy of a turnover leaving the ball with the committing team
poss_turnovers_committer(d) ==
    Ok([i \in DOMAIN d |->
        IF d[i].EVENTMSGTYPE = 0
        THEN [d[i] EXCEPT !.POSS = team_or_id(d[i])]
        ELSE d[i]])

\* the dead-ball copy of a turnover gives the ball to the other team
poss_turnovers(d) ==
    IF \E i \in DOMAIN d :
          d[i].EVENTMSGTYPE = 0 /\ team_or_id(d[i]) \notin DOMAIN inverter
    THEN Raise(d, "KeyError")
    ELSE Ok([i \in DOMAIN d |->
            IF d[i].EVENTMSGTYPE = 0
            THEN [d[i] EXCEPT !.POSS = inverter[team_or_id(d[i])]]
            ELSE d[i]])

\* the loop over jump_ball_df (positions idx[k..])
RECURSIVE poss_jump_balls(_, _, _)
poss_jump_balls(d, idx, k) ==
    IF k > Len(idx) THEN Ok(d)
    ELSE LET p == idx[k]
             winner == int(d[p].ACTION_DETAILS)
         IN  IF p + 1 > Len(d) THEN Raise(d, "KeyError")
             ELSE IF d[p + 1].EVENTMSGTYPE = 5 /\ winner \notin DOMAIN inverter
             THEN Raise(d, "KeyError")
             ELSE IF d[p + 1].EVENTMSGTYPE = 5
                     /\ eq(d[p + 1].PLAYER1_TEAM_ID, inverter[winner])
             THEN poss_jump_balls(d, idx, k + 1)
             ELSE poss_jump_balls([d EXCEPT ![p].POSS = winner], idx, k + 1)

\* Series.ffill() of column c over the positions rows (in table order)
ffill_poss(d, rows) ==
    [i \in DOMAIN d |->
        IF i \in rows /\ isnan(d[i].POSS)
           /\ \E j \in rows : j < i /\ ~isnan(d[j].POSS)
        THEN LET src == CHOOSE j \in rows :
                     /\ j < i /\ ~isnan(d[j].POSS)
                     /\ \A x \in rows : (x < i /\ ~isnan(d[x].POSS)) => x <= j
             IN  [d[i] EXCEPT !.POSS = d[src].POSS]
        ELSE d[i]]

Least(S) == CHOOSE x \in S : \A y \in S : x <= y

Greatest(S) == CHOOSE x \in S : \A y \in S : x >= y

\* the first known owner of the period written as it is, in every period
period_first_poss_as_found(d, period) ==
    LET known == {i \in DOMAIN d : d[i].PERIOD = period /\ ~isnan(d[i].POSS)}
    IN  IF known = {} THEN [e |-> "IndexError", poss |-> NaN]
        ELSE [e |-> "none", poss |-> d[Least(known)].POSS]

\* the loser of the tip written on the first row of every later period
period_first_poss_loser_always(d, period) ==
    LET known == {i \in DOMAIN d : d[i].PERIOD = period /\ ~isnan(d[i].POSS)}
        all_known == {i \in DOMAIN d : ~isnan(d[i].POSS)}
    IN  IF known = {} THEN [e |-> "IndexError", poss |-> NaN]
        ELSE IF period \in {2, 3, 4}
        THEN IF d[Least(known)].EVENTMSGTYPE # 10
             THEN IF d[Least(known)].POSS \in DOMAIN inverter
                  THEN [e |-> "none", poss |-> inverter[d[Least(known)].POSS]]
                  ELSE [e |-> "KeyError", poss |-> NaN]
             ELSE IF d[Least(all_known)].POSS \in DOMAIN inverter
                  THEN [e |-> "none", poss |-> inverter[d[Least(all_known)].POSS]]
                  ELSE [e |-> "KeyError", poss |-> NaN]
        ELSE [e |-> "none", poss |-> d[Least(known)].POSS]

\* the owner written on the first row of a period
period_first_poss(d, period) ==
    LET rows == {i \in DOMAIN d : d[i].PERIOD = period}
        known == {i \in rows : ~isnan(d[i].POSS)}
        second_poss_start_index == Least(known)
        second_poss_id == d[second_poss_start_index].POSS
        second_poss_initiated_jumpball ==
            d[second_poss_start_index].EVENTMSGTYPE = 10
        all_known == {i \in DOMAIN d : ~isnan(d[i].POSS)}
        jump_ball_winner == d[Least(all_known)].POSS
    IN  IF known = {} THEN [e |-> "IndexError", poss |-> NaN]
        ELSE IF period \in {2, 3, 4}
        THEN IF ~second_poss_initiated_jumpball
             THEN IF second_poss_id \in DOMAIN inverter
                  THEN [e |-> "none", poss |-> inverter[second_poss_id]]
                  ELSE [e |-> "KeyError", poss |-> NaN]
             ELSE IF jump_ball_winner \in DOMAIN inverter
                  THEN [e |-> "none",
                        poss |-> IF period = 4 THEN jump_ball_winner
                                 ELSE inverter[jump_ball_winner]]
                  ELSE [e |-> "KeyError", poss |-> NaN]
        ELSE [e |-> "none", poss |-> second_poss_id]

\* the loop "for period in periods" that fills POSS
RECURSIVE fill_periods(_, _, _)
fill_periods(d, periods, k) ==
    IF k > Len(periods) THEN Ok(d)
    ELSE LET rows == {i \in DOMAIN d : d[i].PERIOD = periods[k]}
             first == period_first_poss(d, periods[k])
         IN  IF first.e # "none" THEN Raise(d, first.e)
             ELSE fill_periods(
                     ffill_poss([d EXCEPT ![Least(rows)].POSS = first.poss], rows),
                     periods, k + 1)

\* a numbering that starts again in every period
poss_id_vec_per_period(n, cum_poss) == n

\* poss_id_vec[n - 1]: the id of the n-th possession of a period
poss_id_vec(n, cum_poss) == n + cum_poss

\* the loop "for p in periods" that numbers the possessions
RECURSIVE number_periods(_, _, _, _)
number_periods(d, periods, k, cum_poss) ==
    IF k > Len(periods) THEN d
    ELSE LET P(r) == r.PERIOD = periods[k]
             rows == Where(d, P)
             series == [x \in 1..Len(rows) |-> d[rows[x]].POSS]
             kept == squish_series(series)
             rank(x) == Cardinality({y \in kept : y <= x})
             numbered == [i \in DOMAIN d |->
                 IF \E x \in kept : rows[x] = i
                 THEN [d[i] EXCEPT !.POSS_ID =
                          poss_id_vec(rank(CHOOSE x \in kept : rows[x] = i),
                                      cum_poss)]
                 ELSE d[i]]
         IN  number_periods(numbered, periods, k + 1,
                            poss_id_vec(Cardinality(kept), cum_poss))

ffill_poss_id(d) ==
    [i \in DOMAIN d |->
        IF isnan(d[i].POSS_ID) /\ \E j \in 1..i : ~isnan(d[j].POSS_ID)
        THEN [d[i] EXCEPT !.POSS_ID =
                 d[Greatest({j \in 1..i : ~isnan(d[j].POSS_ID)})].POSS_ID]
        ELSE d[i]]

periods_of(d) == Unique([i \in DOMAIN d |-> d[i].PERIOD])

assign_possession(d) ==
    LET cleared == [i \in DOMAIN d |-> [d[i] EXCEPT !.POSS = NaN, !.POSS_ID = NaN]]
        started == poss_turnovers(poss_rebounds_inbounds(cleared))
        IsJump(r) == r.EVENTMSGTYPE = 10
        jumped == poss_jump_balls(started.d, Where(started.d, IsJump), 1)
        filled == fill_periods(jumped.d, periods_of(d), 1)
    IN  IF started.e # "none" THEN started
        ELSE IF jumped.e # "none" THEN jumped
        ELSE IF filled.e # "none" THEN filled
        ELSE Ok(ffill_poss_id(number_periods(filled.d, periods_of(d), 1, 0)))

_assign_possession ==
    Ran("_assign_possession", "_assign_defense", assign_possession(df))

\* the owner written as its own defender
assign_defense_same_team(d) ==
    Ok([i \in DOMAIN d |-> [d[i] EXCEPT !.DEFENSE = d[i].POSS]])

assign_defense(d) ==
    IF \E i \in DOMAIN d : d[i].POSS \notin DOMAIN inverter
    THEN Raise(d, "KeyError")
    ELSE Ok([i \in DOMAIN d |-> [d[i] EXCEPT !.DEFENSE = inverter[d[i].POSS]]])

_assign_defense == Ran("_assign_defense", "_assign_clock_on", assign_defense(df))

assign_clock_on(d) ==
    IF \E i \in DOMAIN d : clock_on(d[i]) = "raise"
    THEN Raise(d, "Exception")
    ELSE Ok([i \in DOMAIN d |-> [d[i] EXCEPT !.CLOCK_ON = (clock_on(d[i]) = "on")]])

_assign_clock_on ==
    Ran("_assign_clock_on", "_assign_chance_number", assign_clock_on(df))

\* the loop of _assign_chance_number over poss_nums[k..]
RECURSIVE chance_numbers(_, _, _)
chance_numbers(d, poss_nums, k) ==
    IF k > Len(poss_nums) THEN d
    ELSE LET InPoss(r) == r.POSS_ID = poss_nums[k]
             IsOff(r) == /\ InPoss(r) /\ r.EVENTMSGTYPE = 4
                         /\ r.ACTION_DETAILS = "OFFENSIVE"
             rows == Where(d, InPoss)
             off_rebounds_index == Where(d, IsOff)
             opp_indices == <<rows[1]>> \o off_rebounds_index \o <<rows[Len(rows)]>>
             \* the opportunities whose label range holds i; the last one
             \* written wins
             opps(i) == {n \in 1..(Len(opp_indices) - 1) :
                            opp_indices[n] <= i /\ i <= opp_indices[n + 1]}
             numbered ==
                 IF Len(off_rebounds_index) = 0
                 THEN [i \in DOMAIN d |->
                         IF InPoss(d[i]) THEN [d[i] EXCEPT !.OPPORTUNITY_NUM = 1]
                         ELSE d[i]]
                 ELSE [i \in DOMAIN d |->
                         IF opps(i) # {}
                         THEN [d[i] EXCEPT !.OPPORTUNITY_NUM = Greatest(opps(i))]
                         ELSE d[i]]
         IN  chance_numbers(numbered, poss_nums, k + 1)

assign_chance_number(d) ==
    LET poss_nums == Unique([i \in DOMAIN d |-> d[i].POSS_ID])
        numbered == chance_numbers(d, poss_nums, 1)
    IN  [i \in DOMAIN d |->
            IF isnan(numbered[i].POSS_ID)
            THEN [numbered[i] EXCEPT !.OPPORTUNITY_NUM = 0]
            ELSE numbered[i]]

_assign_chance_number ==
    Ran("_assign_chance_number", "_process_possessions",
        Ok(assign_chance_number(df)))

\* ------------------------------------------------------------------------
\* Possession processing functions
\* ------------------------------------------------------------------------

\* the loop of estimate_shotclock from row k on: the SHOTCLOCK values of
\* rows k.. of the possession
RECURSIVE shotclock_loop(_, _, _, _, _)
shotclock_loop(poss, k, prev_sc, prev_time, block_flag) ==
    IF k > Len(poss) THEN <<>>
    ELSE LET row == poss[k]
             flag == IF row.EVENTMSGTYPE = 2 /\ ne(row.PLAYER3_ID, 0)
                     THEN TRUE ELSE block_flag
             curr_time == row.ACTUAL_REMAINING_TIME
             elapsed_time == Max(prev_time - curr_time, 0)
             unadjusted_sc == prev_sc - elapsed_time
             adjusted_sc == get_shotclock_value(row, unadjusted_sc, flag)
             after == IF row.EVENTMSGTYPE = 4 THEN FALSE ELSE flag
         IN  IF k = 1
             THEN <<24>> \o shotclock_loop(poss, k + 1, prev_sc, prev_time, after)
             ELSE <<adjusted_sc>>
                  \o shotclock_loop(poss, k + 1, adjusted_sc, curr_time, after)

estimate_shotclock(poss_df) ==
    LET poss_copy == [k \in DOMAIN poss_df |->
            [poss_df[k] EXCEPT !.SHOTCLOCK = NaN,
                 !.ACTUAL_REMAINING_TIME =
                     estimate_actual_time_remaining(poss_df[k])]]
        sc == shotclock_loop(poss_copy, 1, 24, poss_copy[1].ACTUAL_REMAINING_TIME,
                             FALSE)
    IN  [k \in DOMAIN poss_copy |-> [poss_copy[k] EXCEPT !.SHOTCLOCK = sc[k]]]

\* every row set exactly when its own clock is off
approximate_set_defense_by_row(poss_df) ==
    [k \in DOMAIN poss_df |->
        [poss_df[k] EXCEPT !.SET_DEFENSE = ~poss_df[k].CLOCK_ON]]

approximate_set_defense(poss_df) ==
    LET start_row == poss_df[1]
        All(v) == [k \in DOMAIN poss_df |-> [poss_df[k] EXCEPT !.SET_DEFENSE = v]]
    IN  IF start_row.EVENTMSGTYPE \in {12, 20} THEN All(TRUE)
        ELSE IF start_row.EVENTMSGTYPE = 4
                /\ start_row.ACTION_DETAILS = "DEFENSIVE-TEAM" THEN All(TRUE)
        ELSE IF start_row.EVENTMSGTYPE = 0 /\ eq(start_row.PLAYER2_ID, 0)
        THEN All(TRUE)
        ELSE [k \in DOMAIN poss_df |->
                [poss_df[k] EXCEPT !.SET_DEFENSE =
                    \E x \in 1..k : ~poss_df[x].CLOCK_ON]]

\* the groups of self.df.groupby("POSS_ID"), by increasing key, each run
\* through poss_fct_list (its default) and concatenated again
RECURSIVE process_groups(_, _)
process_groups(d, keys) ==
    IF keys = {} THEN <<>>
    ELSE LET key == Least(keys)
             InPoss(r) == r.POSS_ID = key
             rows == Where(d, InPoss)
             poss_df == [k \in 1..Len(rows) |-> d[rows[k]]]
         IN  approximate_set_defense(estimate_shotclock(poss_df))
             \o process_groups(d, keys \ {key})

process_possessions(d) ==
    process_groups(d, {d[i].POSS_ID : i \in DOMAIN d} \ {NaN})

_process_possessions ==
    Ran("_process_possessions", "_verify_parsing", Ok(process_possessions(df)))

\* ------------------------------------------------------------------------
\* _verify_parsing, run when preprocess is called with verify=True
\* ------------------------------------------------------------------------

Col(d, idx, c(_)) == [k \in 1..Len(idx) |-> c(d[idx[k]])]

verify_parsing(d, raw) ==
    LET raw_events == {raw[i].EVENTNUM : i \in DOMAIN raw}
        proc_events == {d[i].EVENTNUM : i \in DOMAIN d}
        Team(r) == r.PLAYER1_TEAM_ID
        Id(r) == r.PLAYER1_ID
        Poss(r) == r.POSS
        Same(P(_), actor(_)) ==
            compare_series(Col(d, Where(d, P), actor), Col(d, Where(d, P), Poss))
        Shots(r) == r.EVENTMSGTYPE \in {1, 2}
        Orebs(r) == r.EVENTMSGTYPE = 4 /\ r.ACTION_DETAILS = "OFFENSIVE"
        TeamOrebs(r) == r.EVENTMSGTYPE = 4 /\ r.ACTION_DETAILS = "OFFENSIVE-TEAM"
        Turnovers(r) == r.EVENTMSGTYPE = 5
    IN  IF raw_events # proc_events THEN Raise(d, "LostEvents")
        ELSE IF ~Same(Shots, Team) THEN Raise(d, "VerifyShots")
        ELSE IF ~Same(Orebs, Team) THEN Raise(d, "VerifyOrebs")
        ELSE IF ~Same(TeamOrebs, Id) THEN Raise(d, "VerifyTeamOrebs")
        ELSE IF ~Same(Turnovers, Team) THEN Raise(d, "VerifyTurnovers")
        ELSE Ok(d)

\* the end of preprocess(..., verify): the verification runs only if asked
_verify_parsing ==
    /\ pc = "_verify_parsing"
    /\ \E v \in BOOLEAN :
         \E r \in {IF v THEN verify_parsing(df, raw_df) ELSE Ok(df)} :
             /\ verify' = v
             /\ df' = r.d
             /\ pc' = IF r.e = "none" THEN "done" ELSE "failed"
             /\ failure' = r.e
    /\ UNCHANGED <<raw_df, inverter, dvars, lvars>>

Next ==
    \/ _notify_excess_timeout_technicals
    \/ _assign_elapsed_time
    \/ _assign_remaining_quarter_time
    \/ _ft_results
    \/ _rebound_type
    \/ _shot_type
    \/ _handle_simultaneous_rebs_TOs
    \/ _add_and1s2
    \/ _order_pbp
    \/ _adjust_putback_time
    \/ _identify_TO_team
    \/ _add_inbounds
    \/ _propogate_margin
    \/ _get_jumpball_winner
    \/ _find_flagrant_to
    \/ _double_turnovers
    \/ _assign_possession
    \/ _assign_defense
    \/ _assign_clock_on
    \/ _assign_chance_number
    \/ _process_possessions
    \/ _verify_parsing

\* ------------------------------------------------------------------------
\* Specifications: the pipeline on bounded families of raw tables
\* ------------------------------------------------------------------------

MaxRows == 4

\* a stretch of play of the first period: a tip, shots, putbacks, rebounds
\* of both kinds, turnovers
PlayEvents ==
    {<<"JUMP", 1>>, <<"MADE2", 1>>, <<"MISS", 1>>, <<"MISS_PUT", 2>>,
     <<"REB", 1>>, <<"REB_TEAM", 1>>, <<"REB", 2>>, <<"TO_LIVE", 1>>}

PlayTimes == <<<<1, <<11, 40>>>>, <<1, <<11, 0>>>>>>

Init == Construct(PlayEvents, PlayTimes, MaxRows)

Spec == Init /\ [][Next]_vars

\* ------------------------------------------------------------------------
\* Properties of a completed preprocess
\* ------------------------------------------------------------------------

EventNums(d) == {d[i].EVENTNUM : i \in DOMAIN d}

\* rows the pipeline adds: live inbounds (20) and duplicated turnovers (0)
Synthetic(r) == r.EVENTMSGTYPE \in {0, 20}

Provider(d) == SelectSeq(d, LAMBDA r : ~Synthetic(r))

\* C1: whenever preprocess completes, every raw EVENTNUM is in the output,
\* no other EVENTNUM is, and the rows that are not synthetic carry each raw
\* EVENTNUM exactly once.
C1_NoEventLost ==
    pc = "done" =>
        /\ EventNums(df) = EventNums(raw_df)
        /\ \A n \in EventNums(raw_df) :
              Cardinality({i \in DOMAIN df :
                              ~Synthetic(df[i]) /\ df[i].EVENTNUM = n}) = 1

\* a completed run that reordered provider rows, duplicated a turnover and
\* so returned more rows than it was given
C1_Witness ==
    /\ pc = "done"
    /\ Len(df) > Len(raw_df)
    /\ \E i \in DOMAIN df : df[i].EVENTMSGTYPE = 0
    /\ \E i, j \in DOMAIN Provider(df) :
          i < j /\ Provider(df)[i].EVENTNUM > Provider(df)[j].EVENTNUM

IsFieldGoal(r) == r.EVENTMSGTYPE \in {1, 2}

IsOffReb(r) == r.EVENTMSGTYPE = 4 /\ r.ACTION_DETAILS = "OFFENSIVE"

IsTeamOffReb(r) == r.EVENTMSGTYPE = 4 /\ r.ACTION_DETAILS = "OFFENSIVE-TEAM"

IsTurnover(r) == r.EVENTMSGTYPE = 5

\* a row whose actor is not the team in possession
ActorMismatch(r) ==
    \/ IsFieldGoal(r) /\ ne(r.PLAYER1_TEAM_ID, r.POSS)
    \/ IsOffReb(r) /\ ne(r.PLAYER1_TEAM_ID, r.POSS)
    \/ IsTeamOffReb(r) /\ ne(r.PLAYER1_ID, r.POSS)
    \/ IsTurnover(r) /\ ne(r.PLAYER1_TEAM_ID, r.POSS)

\* C3: when preprocess runs with verify=True, a table with a shot, an
\* offensive rebound (individual or team) or a turnover whose actor is not
\* POSS makes the verification raise, and a run that returns has none.
C3_VerifiedActors ==
    [][(pc = "_verify_parsing" /\ verify') =>
          /\ (\E i \in DOMAIN df : ActorMismatch(df[i])) => pc' = "failed"
          /\ pc' = "done" => \A i \in DOMAIN df' : ~ActorMismatch(df'[i])]_vars

\* a verified run that returned, over a table with a turnover, a shot and
\* an offensive rebound
C3_Witness ==
    /\ pc = "done" /\ verify
    /\ \E i \in DOMAIN df : IsTurnover(df[i])
    /\ \E i \in DOMAIN df : IsFieldGoal(df[i])
    /\ \E i \in DOMAIN df : IsOffReb(df[i]) \/ IsTeamOffReb(df[i])

FirstOfPossession(d, i) == i = 1 \/ d[i - 1].POSS_ID # d[i].POSS_ID

\* C5: OPPORTUNITY_NUM is 1 on the first row of every possession, one more
\* than on the row before at an offensive rebound (individual or team), and
\* unchanged on any other row (stated of the runs the verification accepts).
C5_OpportunityNumbers ==
    (pc = "done" /\ verify) =>
        \A i \in DOMAIN df :
            df[i].OPPORTUNITY_NUM =
                IF FirstOfPossession(df, i) THEN 1
                ELSE df[i - 1].OPPORTUNITY_NUM
                     + (IF IsOffReb(df[i]) \/ IsTeamOffReb(df[i]) THEN 1 ELSE 0)

\* ------------------------------------------------------------------------
\* The shot clock
\* ------------------------------------------------------------------------

\* C6: every SHOTCLOCK value estimate_shotclock writes lies in [0, 24]
\* (stated of the runs the verification accepts).
C6_ShotclockRange ==
    (pc = "done" /\ verify) =>
        \A i \in DOMAIN df : 0 <= df[i].SHOTCLOCK /\ df[i].SHOTCLOCK <= 24

\* the end of a period and the start of the next: blocked and unblocked
\* misses, rebounds of every kind, a flagrant foul
ClockEvents ==
    {<<"JUMP", 1>>, <<"MISS", 1>>, <<"MISS_BLK", 1>>, <<"REB", 1>>,
     <<"REB_TEAM", 1>>, <<"REB", 2>>, <<"FLAGRANT", 2>>}

ClockTimes == <<<<1, <<0, 40>>>>, <<1, <<0, 20>>>>, <<2, <<11, 40>>>>>>

InitClock == Construct(ClockEvents, ClockTimes, MaxRows)

SpecClock == InitClock /\ [][Next]_vars

\* block_flag at row i: a blocked miss earlier in (or at the head of) the
\* possession with no rebound row between it and row i
FollowsBlock(d, i) ==
    \E j \in 1..(i - 1) :
        /\ d[j].POSS_ID = d[i].POSS_ID
        /\ d[j].EVENTMSGTYPE = 2 /\ ne(d[j].PLAYER3_ID, 0)
        /\ \A x \in (j + 1)..(i - 1) : d[x].EVENTMSGTYPE # 4

IsFlagrantClass(r) ==
    r.EVENTMSGTYPE = 6 /\ r.EVENTMSGACTIONTYPE \in {8, 9, 14, 15}

\* the resets of get_shotclock_value, on row i of a processed table
ClockReset(d, i) ==
    /\ ((IsOffReb(d[i]) \/ IsTeamOffReb(d[i])) /\ ~FollowsBlock(d, i))
          => d[i].SHOTCLOCK = 14
    /\ IsFlagrantClass(d[i]) => d[i].SHOTCLOCK = 24

\* C7 as stated: the reset values hold wherever the row sits in the
\* possession.
C7_ResetsEverywhere ==
    pc = "done" => \A i \in DOMAIN df : ClockReset(df, i)

\* C7: an offensive rebound (individual or team) that does not follow a
\* blocked shot has SHOTCLOCK 14 and a flagrant-class foul has SHOTCLOCK 24,
\* on every row but the first row of a possession (which is always 24).
C7_ResetsAfterFirstRow ==
    pc = "done" =>
        \A i \in DOMAIN df : ~FirstOfPossession(df, i) => ClockReset(df, i)

\* a flagrant foul after an unblocked offensive rebound, the clock having
\* run since the possession began
C7_Witness ==
    /\ pc = "done"
    /\ \E i, j \in DOMAIN df :
          /\ df[i].POSS_ID = df[j].POSS_ID /\ i < j
          /\ ~FirstOfPossession(df, i)
          /\ (IsOffReb(df[i]) \/ IsTeamOffReb(df[i])) /\ ~FollowsBlock(df, i)
          /\ df[i - 1].SHOTCLOCK < 14
          /\ IsFlagrantClass(df[j])

\* ------------------------------------------------------------------------
\* Possession across periods
\* ------------------------------------------------------------------------

\* the end of a period and the starts of the two next: tips, period starts
\* and the events that hand the ball over
PeriodEvents ==
    {<<"START", 1>>, <<"JUMP", 1>>, <<"MISS", 1>>, <<"REB", 2>>,
     <<"MADE2", 2>>, <<"TO_DEAD", 1>>}

PeriodTimes == <<<<1, <<0, 30>>>>, <<2, <<11, 40>>>>, <<3, <<11, 40>>>>>>

InitPeriods == Construct(PeriodEvents, PeriodTimes, MaxRows)

SpecPeriods == InitPeriods /\ [][Next]_vars

AfterAssignDefense ==
    pc \in {"_assign_clock_on", "_assign_chance_number", "_process_possessions",
            "_verify_parsing", "done"}

\* C2: after _assign_possession and _assign_defense, every row has a POSS
\* that is one of the game's two team ids, and its DEFENSE is the other one.
C2_PossAndDefense ==
    AfterAssignDefense =>
        \A i \in DOMAIN df :
            /\ df[i].POSS \in DOMAIN inverter
            /\ df[i].DEFENSE \in DOMAIN inverter
            /\ df[i].DEFENSE # df[i].POSS

\* a table of three periods, with rows that start no possession, after both
\* passes
C2_Witness ==
    /\ pc = "_assign_clock_on"
    /\ {df[i].PERIOD : i \in DOMAIN df} = {1, 2, 3}
    /\ \E i \in DOMAIN df : df[i].EVENTMSGTYPE \in {2, 12}
    /\ \E i, j \in DOMAIN df : df[i].POSS # df[j].POSS

AfterAssignPossession == pc = "_assign_defense" \/ AfterAssignDefense

\* C4: POSS_ID is 1 on the first row and, from a row to the next, is one
\* more where the possessing team changes inside a period or a new period
\* begins, and the same elsewhere.
C4_PossessionIds ==
    AfterAssignPossession =>
        \A i \in DOMAIN df :
            df[i].POSS_ID =
                IF i = 1 THEN 1
                ELSE df[i - 1].POSS_ID
                     + (IF df[i].PERIOD # df[i - 1].PERIOD
                           \/ df[i].POSS # df[i - 1].POSS THEN 1 ELSE 0)

\* possessions numbered over two periods, the team changing inside one of
\* them and staying the same across the period boundary
C4_Witness ==
    /\ pc = "_assign_defense"
    /\ \E i \in 2..Len(df) :
          df[i].PERIOD = df[i - 1].PERIOD /\ df[i].POSS # df[i - 1].POSS
    /\ \E i \in 2..Len(df) :
          /\ df[i].PERIOD # df[i - 1].PERIOD /\ df[i].POSS = df[i - 1].POSS
          /\ df[i].POSS_ID > 1

\* ------------------------------------------------------------------------
\* Putback frenzies: the reordering pass on same-timestamp clusters
\* ------------------------------------------------------------------------

MaxClusterRows == 5

\* the rows _order_pbp gathers at a timestamp
InCluster(r) ==
    \/ r.EVENTMSGTYPE \in {1, 2}
    \/ r.EVENTMSGTYPE = 4 /\ r.ACTION_DETAILS \in {"OFFENSIVE", "DEFENSIVE"}

ClusterAt(d, t) == {j \in DOMAIN d : d[j].ELAPSED_TIME = t /\ InCluster(d[j])}

\* misses, an offensive rebound and a make of team 1, after a miss of team 2
MakeLastEvents ==
    {<<"MISS", 2>>, <<"MISS", 1>>, <<"REB", 1>>, <<"MADE2", 1>>}

ClusterTimes == <<<<1, <<11, 40>>>>, <<1, <<11, 0>>>>>>

InitMakeLast == Construct(MakeLastEvents, ClusterTimes, MaxClusterRows)

SpecMakeLast == InitMakeLast /\ [][Next]_vars

\* rows k, k+1, k+2 are, in some order, a miss, an offensive rebound and a
\* make of one team, and are the whole cluster of their timestamp
ScenarioC(d, k) ==
    /\ k + 2 <= Len(d)
    /\ ClusterAt(d, d[k].ELAPSED_TIME) = {k, k + 1, k + 2}
    /\ \E m, r, b \in {k, k + 1, k + 2} :
          /\ d[m].EVENTMSGTYPE = 2 /\ IsOffReb(d[r]) /\ d[b].EVENTMSGTYPE = 1
          /\ d[m].PLAYER1_TEAM_ID = d[r].PLAYER1_TEAM_ID
          /\ d[m].PLAYER1_TEAM_ID = d[b].PLAYER1_TEAM_ID

\* C8 (Scenario C): a cluster of a miss, an offensive rebound and a make of
\* one team on adjacent rows leaves the reordering pass as miss, rebound,
\* make, whatever the order of the three rows was.
C8_MissReboundMake ==
    [][(pc = "_order_pbp" /\ pc' # "failed") =>
          \A k \in DOMAIN df :
              ScenarioC(df, k) =>
                  /\ df'[k].EVENTMSGTYPE = 2
                  /\ IsOffReb(df'[k + 1])
                  /\ df'[k + 2].EVENTMSGTYPE = 1
                  /\ {df'[j].EVENTNUM : j \in k..(k + 2)}
                        = {df[j].EVENTNUM : j \in k..(k + 2)}]_vars

\* the pass has returned miss, rebound, make for a cluster the provider gave
\* as make, rebound, miss
C8_Witness ==
    /\ pc = "_adjust_putback_time"
    /\ \E k \in DOMAIN df :
          /\ ScenarioC(df, k)
          /\ df[k].EVENTMSGTYPE = 2 /\ df[k + 2].EVENTMSGTYPE = 1
          /\ df[k + 2].EVENTNUM < df[k + 1].EVENTNUM
          /\ df[k + 1].EVENTNUM < df[k].EVENTNUM

\* misses and a make of team 1, a defensive rebound and a foul of team 2
MakeDrebEvents ==
    {<<"MISS", 1>>, <<"MADE2", 1>>, <<"REB", 2>>, <<"FOUL", 2>>}

InitMakeDreb == Construct(MakeDrebEvents, ClusterTimes, MaxClusterRows)

SpecMakeDreb == InitMakeDreb /\ [][Next]_vars

\* row k is a made shot and row k+1, at the same timestamp, a defensive
\* rebound by the other team
ScenarioD(d, k) ==
    /\ k + 1 <= Len(d)
    /\ d[k].EVENTMSGTYPE = 1
    /\ d[k + 1].EVENTMSGTYPE = 4 /\ d[k + 1].ACTION_DETAILS = "DEFENSIVE"
    /\ d[k + 1].ELAPSED_TIME = d[k].ELAPSED_TIME
    /\ ne(d[k + 1].PLAYER1_TEAM_ID, d[k].PLAYER1_TEAM_ID)

\* C9 as stated (Scenario D): a defensive rebound by team B right after a
\* made shot by team A at the same timestamp makes the pass fail with the
\* simultaneous make/defensive-rebound anomaly.
C9_MakeThenDrebFails ==
    [][(pc = "_order_pbp" /\ \E k \in DOMAIN df : ScenarioD(df, k)) =>
          (pc' = "failed" /\ failure' = "BucketDrebOpposing")]_vars

\* the pass examines timestamp t: a shot at t is not tagged as an and-one
Examined(d, t) ==
    \E j \in DOMAIN d :
        /\ d[j].ELAPSED_TIME = t /\ d[j].EVENTMSGTYPE \in {1, 2}
        /\ ~ContainsAND1(d[j].ACTION_DETAILS)

\* the cluster of timestamp t is a block of adjacent rows with one made
\* shot and one defensive rebound
ResolvableCluster(d, t) ==
    LET rows == ClusterAt(d, t)
    IN  /\ rows = Least(rows)..Greatest(rows)
        /\ Cardinality({j \in rows : d[j].EVENTMSGTYPE = 1}) = 1
        /\ Cardinality({j \in rows : d[j].EVENTMSGTYPE = 4
                            /\ d[j].ACTION_DETAILS = "DEFENSIVE"}) = 1

\* C9: when the timestamp of such a make and rebound is examined (one of
\* its shots is not tagged as an and-one) and its cluster is a block of
\* adjacent rows with that one make and that one defensive rebound, the pass
\* fails: with the make/defensive-rebound anomaly, or with the error of the
\* cluster of another timestamp.
C9_ExaminedMakeThenDrebFails ==
    [][(/\ pc = "_order_pbp"
        /\ \E k \in DOMAIN df :
              /\ ScenarioD(df, k)
              /\ Examined(df, df[k].ELAPSED_TIME)
              /\ ResolvableCluster(df, df[k].ELAPSED_TIME)) =>
          /\ pc' = "failed"
          /\ \/ failure' = "BucketDrebOpposing"
             \/ /\ failure' \in {"TooManyDrebs", "ValueError"}
                /\ \E j \in DOMAIN df :
                      order_putback_frenzy(
                          curr_sub_df(df, df[j].ELAPSED_TIME)).e = failure']_vars

\* the pass has failed with the anomaly on a make followed by the other
\* team's defensive rebound
C9_Witness ==
    /\ pc = "failed" /\ failure = "BucketDrebOpposing"
    /\ \E k \in DOMAIN df :
          /\ ScenarioD(df, k)
          /\ Examined(df, df[k].ELAPSED_TIME)
          /\ ResolvableCluster(df, df[k].ELAPSED_TIME)

\* ------------------------------------------------------------------------
\* And-ones
\* ------------------------------------------------------------------------

\* made baskets and fouls of either team, the single free throw
AndOneEvents ==
    {<<"MADE2", 1>>, <<"FT_1OF1", 1>>, <<"FOUL_SHOOT", 2>>, <<"FOUL", 1>>,
     <<"MADE2", 2>>}

AndOneTimes == <<<<1, <<11, 40>>>>, <<1, <<11, 0>>>>>>

InitAndOne == Construct(AndOneEvents, AndOneTimes, MaxRows)

SpecAndOne == InitAndOne /\ [][Next]_vars

SameTimestamp(a, b) == a.PERIOD = b.PERIOD /\ a.PCTIMESTRING = b.PCTIMESTRING

IsMade2PT(r) ==
    /\ r.EVENTMSGTYPE = 1
    /\ "3PT" \notin (r.HOMEDESCRIPTION \cup r.VISITORDESCRIPTION)

IsSingleFT(r) == r.EVENTMSGTYPE = 3 /\ r.EVENTMSGACTIONTYPE = 10

\* raw row k is a made 2PT shot and raw row m a single free throw by the
\* same team at the same timestamp
ShotAndFreeThrow(raw, k, m) ==
    /\ IsMade2PT(raw[k]) /\ IsSingleFT(raw[m])
    /\ SameTimestamp(raw[k], raw[m])
    /\ raw[m].PLAYER1_TEAM_ID = raw[k].PLAYER1_TEAM_ID

\* a personal, shooting or flagrant foul by the other team at the timestamp
\* of raw row k, at a later row
FouledOnShot(raw, k) ==
    \E j \in (k + 1)..Len(raw) :
        /\ raw[j].EVENTMSGTYPE = 6 /\ raw[j].EVENTMSGACTIONTYPE \in {1, 2, 14}
        /\ SameTimestamp(raw[j], raw[k])
        /\ ne(raw[j].PLAYER1_TEAM_ID, raw[k].PLAYER1_TEAM_ID)

\* the output rows of provider event n are tagged / typed as given
ShotTagged(d, n, tag) ==
    \A i \in DOMAIN d :
        (d[i].EVENTNUM = n /\ d[i].EVENTMSGTYPE = 1) => d[i].ACTION_DETAILS = tag

FreeThrowSubtype(d, n, subtype) ==
    \A i \in DOMAIN d :
        (d[i].EVENTNUM = n /\ d[i].EVENTMSGTYPE = 3)
            => d[i].EVENTMSGACTIONTYPE = subtype

\* C10 as stated (Scenario A): a made 2PT shot followed immediately, at the
\* same timestamp, by a single free throw of the same team is tagged
\* 2PT-AND1 and the free throw keeps subtype 10.
C10_ShotThenFreeThrow ==
    pc = "done" =>
        \A k \in 1..(Len(raw_df) - 1) :
            ShotAndFreeThrow(raw_df, k, k + 1) =>
                /\ ShotTagged(df, k, "2PT-AND1")
                /\ FreeThrowSubtype(df, k + 1, 10)

\* C10: a made 2PT shot followed, at the same timestamp, by a single free
\* throw of the same team and by a personal, shooting or flagrant foul of
\* the other team is tagged 2PT-AND1 and the free throw keeps subtype 10;
\* a shot followed immediately by the free throw, with no foul of those
\* kinds at the timestamp, keeps the tag 2PT and the free throw becomes 100.
C10_FouledShotThenFreeThrow ==
    pc = "done" =>
        \A k \in DOMAIN raw_df :
            /\ \A m \in (k + 1)..Len(raw_df) :
                  (ShotAndFreeThrow(raw_df, k, m) /\ FouledOnShot(raw_df, k)) =>
                      /\ ShotTagged(df, k, "2PT-AND1")
                      /\ FreeThrowSubtype(df, m, 10)
            /\ (/\ k < Len(raw_df)
                /\ ShotAndFreeThrow(raw_df, k, k + 1)
                /\ \A j \in DOMAIN raw_df :
                      ~(raw_df[j].EVENTMSGTYPE = 6
                        /\ SameTimestamp(raw_df[j], raw_df[k]))) =>
                      /\ ShotTagged(df, k, "2PT")
                      /\ FreeThrowSubtype(df, k + 1, 100)

\* a completed run over a shot, the foul on it and the free throw
C10_Witness ==
    /\ pc = "done"
    /\ \E k \in DOMAIN raw_df :
          /\ FouledOnShot(raw_df, k)
          /\ \E m \in (k + 1)..Len(raw_df) : ShotAndFreeThrow(raw_df, k, m)
          /\ \E i \in DOMAIN df :
                df[i].EVENTNUM = k /\ df[i].ACTION_DETAILS = "2PT-AND1"

\* a made basket of the team of raw row m at the timestamp of raw row m
OwnBasketAt(raw, m) ==
    \E k \in DOMAIN raw :
        /\ raw[k].EVENTMSGTYPE = 1 /\ SameTimestamp(raw[k], raw[m])
        /\ raw[k].PLAYER1_TEAM_ID = raw[m].PLAYER1_TEAM_ID

\* C11 (Scenario B): a single free throw with no made basket of
\* the shooter's team at its timestamp is rewritten to subtype 100, whatever
\* other rows share the timestamp.
C11_LoneFreeThrowRewritten ==
    pc = "done" =>
        \A m \in DOMAIN raw_df :
            (IsSingleFT(raw_df[m]) /\ ~OwnBasketAt(raw_df, m))
                => FreeThrowSubtype(df, m, 100)

\* ------------------------------------------------------------------------
\* Possession owners
\* ------------------------------------------------------------------------

\* row i starts a possession: a defensive rebound, a live inbound, the
\* dead-ball marker of a turnover, or a jump ball not followed by a turnover
\* of the team that lost it
StartsPossession(d, i) ==
    \/ IsDrebRow(d[i])
    \/ d[i].EVENTMSGTYPE \in {0, 20}
    \/ /\ d[i].EVENTMSGTYPE = 10
       /\ ~(/\ d[i + 1].EVENTMSGTYPE = 5
            /\ eq(d[i + 1].PLAYER1_TEAM_ID, inverter[int(d[i].ACTION_DETAILS)]))

\* the owner a possession-starting row designates
Designated(r) ==
    CASE r.EVENTMSGTYPE = 4 -> team_or_id(r)
      [] r.EVENTMSGTYPE = 20 -> r.PLAYER1_ID
      [] r.EVENTMSGTYPE = 0 -> inverter[team_or_id(r)]
      [] r.EVENTMSGTYPE = 10 -> int(r.ACTION_DETAILS)

RowsOfPeriod(d, p) == {i \in DOMAIN d : d[i].PERIOD = p}

StartsIn(d, p) == {i \in RowsOfPeriod(d, p) : StartsPossession(d, i)}

\* period 2 follows period 1 and holds no jump ball
OpensWithoutJumpBall(d) ==
    /\ RowsOfPeriod(d, 1) # {} /\ RowsOfPeriod(d, 2) # {}
    /\ \A i \in RowsOfPeriod(d, 2) : d[i].EVENTMSGTYPE # 10

\* C12 as stated (Scenario E): with no jump ball at the boundary, the first
\* row of period 2 belongs to the opponent of the last owner of period 1.
C12_AlternatesFromLastOwner ==
    (AfterAssignPossession /\ OpensWithoutJumpBall(df)) =>
        df[Least(RowsOfPeriod(df, 2))].POSS
            = inverter[df[Greatest(RowsOfPeriod(df, 1))].POSS]

\* C12: with no jump ball in period 2, the first row of period 2 belongs to
\* the opponent of the owner designated by the first possession-starting
\* row inside period 2, whoever owned the ball at the end of period 1.
C12_AlternatesFromNextOwner ==
    (AfterAssignPossession /\ OpensWithoutJumpBall(df)) =>
        df[Least(RowsOfPeriod(df, 2))].POSS
            = inverter[Designated(df[Least(StartsIn(df, 2))])]

\* period 2 opens on a row that starts no possession, owned by the team
\* that owned the last row of period 1
C12_Witness ==
    /\ pc = "_assign_defense" /\ OpensWithoutJumpBall(df)
    /\ ~StartsPossession(df, Least(RowsOfPeriod(df, 2)))
    /\ df[Least(RowsOfPeriod(df, 2))].POSS
          = df[Greatest(RowsOfPeriod(df, 1))].POSS

\* ------------------------------------------------------------------------
\* Chronological order
\* ------------------------------------------------------------------------

\* a miss, a loose-ball foul, the offensive rebound and the putback, on three
\* clock readings five seconds apart
PutbackEvents ==
    {<<"MISS", 1>>, <<"FOUL", 2>>, <<"REB", 1>>, <<"MADE_PUT", 1>>}

PutbackTimes ==
    <<<<1, <<11, 40>>>>, <<1, <<11, 35>>>>, <<1, <<11, 30>>>>>>

MaxPutbackRows == 5

InitPutback == Construct(PutbackEvents, PutbackTimes, MaxPutbackRows)

SpecPutback == InitPutback /\ [][Next]_vars

NonDecreasing(d) ==
    \A i \in DOMAIN d : i > 1 => d[i - 1].ELAPSED_TIME <= d[i].ELAPSED_TIME

\* the raw rows are in the order of the game clock
RawChronological(raw) ==
    \A i \in DOMAIN raw : i > 1 =>
        get_elapsed_time(raw[i - 1]) <= get_elapsed_time(raw[i])

\* C13: a raw table in the order of the game clock gives a processed table
\* whose ELAPSED_TIME never decreases from one row to the next.
C13_ElapsedTimeNonDecreasing ==
    (pc = "done" /\ RawChronological(raw_df)) => NonDecreasing(df)

\* ------------------------------------------------------------------------
\* Failing passes
\* ------------------------------------------------------------------------

\* plays among which preprocess fails on the excess-timeout technical, on a
\* rebound without a miss, on a possession nobody starts, or in verification
FailEvents ==
    {<<"TO_EXCESS", 1>>, <<"MISS", 1>>, <<"REB", 2>>, <<"REB", 1>>,
     <<"MADE2", 2>>, <<"TO_LIVE", 1>>}

FailTimes == <<<<1, <<11, 40>>>>, <<1, <<11, 0>>>>>>

InitFail == Construct(FailEvents, FailTimes, MaxRows)

SpecFail == InitFail /\ [][Next]_vars

\* the working table is the one the constructor built (a copy of raw_df)
AsConstructed == df = raw_df

\* C14 as stated: when a pass fails, the working table is the same as before
\* preprocess was called.
C14_FailureLeavesNoTrace ==
    pc = "failed" => AsConstructed

\* C14: when a pass fails, the working table is the same as before
\* preprocess was called exactly when the failing pass is the first one, the
\* excess-timeout check; a later failure leaves what was written so far.
C14_OnlyFirstPassLeavesNoTrace ==
    pc = "failed" => (AsConstructed <=> failure = "ExcessTimeout")

\* the verification has failed on a table that carries the annotations
C14_Witness ==
    /\ pc = "failed" /\ failure = "VerifyShots" /\ ~AsConstructed
    /\ \E i \in DOMAIN df : ~isnan(df[i].POSS)

\* ------------------------------------------------------------------------
\* Verified free throws
\* ------------------------------------------------------------------------

IsFreeThrow(r) == r.EVENTMSGTYPE = 3

\* C15: a verified run leaves no free throw whose shooter's team differs from
\* the team in possession (the verification fails on such a row).
C15_VerifiedFreeThrows ==
    (pc = "done" /\ verify) =>
        \A i \in DOMAIN df :
            IsFreeThrow(df[i]) => eq(df[i].PLAYER1_TEAM_ID, df[i].POSS)

\* ------------------------------------------------------------------------
\* The raw table
\* ------------------------------------------------------------------------

StartsUpTo(d, i) == {j \in StartsIn(d, d[i].PERIOD) : j <= i}

FirstOfPeriod(d, i) == i = Least(RowsOfPeriod(d, d[i].PERIOD))

\* a row that starts no possession has the owner of the row before it
OwnerKept(d) ==
    \A i \in DOMAIN d :
        (~StartsPossession(d, i) /\ ~FirstOfPeriod(d, i))
            => d[i].POSS = d[i - 1].POSS

\* C17 as stated: after _assign_possession every row has the owner that the
\* most recent possession-starting row of its period designates, and a row
\* that starts no possession never changes the owner.
C17_OwnerFromLatestStart ==
    AfterAssignPossession =>
        /\ OwnerKept(df)
        /\ \A i \in DOMAIN df :
              StartsUpTo(df, i) # {} =>
                  df[i].POSS = Designated(df[Greatest(StartsUpTo(df, i))])

\* C17: the same, unless that possession-starting row opens period 2, 3 or
\* 4: the rows after it then have the owner written on the period's first
\* row, the opponent of the owner a rebound there designates.
C17_OwnerFromLatestStartInsidePeriod ==
    AfterAssignPossession =>
        /\ OwnerKept(df)
        /\ \A i \in DOMAIN df :
              StartsUpTo(df, i) # {} =>
                  LET s == Greatest(StartsUpTo(df, i))
                  IN  IF FirstOfPeriod(df, s) /\ df[s].PERIOD \in {2, 3, 4}
                      THEN /\ df[i].POSS = df[s].POSS
                           /\ df[s].EVENTMSGTYPE # 10 =>
                                 df[s].POSS = inverter[Designated(df[s])]
                      ELSE df[i].POSS = Designated(df[s])

\* a turnover copy inside a period hands the ball to the other team, and the
\* rows after it, which start nothing, keep that owner
C17_Witness ==
    /\ AfterAssignPossession
    /\ \E s \in DOMAIN df :
          /\ df[s].EVENTMSGTYPE = 0 /\ ~FirstOfPeriod(df, s)
          /\ s + 1 \in DOMAIN df /\ df[s + 1].PERIOD = df[s].PERIOD
          /\ ~StartsPossession(df, s + 1)
          /\ df[s + 1].POSS = inverter[df[s].PLAYER1_TEAM_ID]
          /\ df[s - 1].POSS = df[s].PLAYER1_TEAM_ID

\* ------------------------------------------------------------------------
\* Inbounds
\* ------------------------------------------------------------------------

\* a made 2PT or 3PT shot not tagged as an and-one, or a made final free
\* throw (subtypes 10, 12, 15)
EndsInInbound(r) ==
    \/ r.EVENTMSGTYPE = 1 /\ r.ACTION_DETAILS \in {"2PT", "3PT"}
    \/ /\ r.EVENTMSGTYPE = 3 /\ r.EVENTMSGACTIONTYPE \in {10, 12, 15}
       /\ r.ACTION_DETAILS = "MADE"

IsInbound(r) == r.EVENTMSGTYPE = 20

NotInbound(r) == ~IsInbound(r)

\* new is old with one inbound of the scorer's opponent right after every
\* scoring row, and nothing else added, moved or changed
Inbounded(old, new) ==
    /\ SelectSeq(new, NotInbound) = old
    /\ \A i \in DOMAIN new :
          /\ EndsInInbound(new[i]) =>
                /\ i + 1 \in DOMAIN new /\ IsInbound(new[i + 1])
                /\ new[i + 1].PLAYER1_ID = inverter[new[i].PLAYER1_TEAM_ID]
                /\ i + 2 \in DOMAIN new => ~IsInbound(new[i + 2])
          /\ IsInbound(new[i]) => (i > 1 /\ EndsInInbound(new[i - 1]))

\* C18: _add_inbounds puts exactly one inbound of the scorer's opponent right
\* after every made 2PT/3PT shot not tagged as an and-one and every made
\* final free throw, none elsewhere, and keeps the other rows in their order.
C18_InboundsAfterScores ==
    [][(pc = "_add_inbounds" /\ pc' = "_propogate_margin")
          => Inbounded(df, df')]_vars

\* after _add_inbounds: an and-one shot without an inbound, its free throw
\* with one, and a plain made shot with one
C18_Witness ==
    /\ pc = "_propogate_margin"
    /\ \E i, j, k \in DOMAIN df :
          /\ i < j /\ j < k /\ k < Len(df)
          /\ df[i].EVENTMSGTYPE = 1 /\ ContainsAND1(df[i].ACTION_DETAILS)
          /\ ~IsInbound(df[i + 1])
          /\ df[j].EVENTMSGTYPE = 3 /\ IsInbound(df[j + 1])
          /\ df[k].EVENTMSGTYPE = 1 /\ IsInbound(df[k + 1])

\* ------------------------------------------------------------------------
\* Flagrant fouls and turnovers
\* ------------------------------------------------------------------------

\* a tip, a miss and its defensive rebound, a turnover, and flagrant fouls of
\* both teams
FlagrantEvents ==
    {<<"JUMP", 1>>, <<"MISS", 1>>, <<"REB", 2>>, <<"TO_LIVE", 1>>,
     <<"FLAGRANT", 1>>, <<"FLAGRANT", 2>>}

FlagrantTimes == <<<<1, <<11, 40>>>>, <<1, <<11, 0>>>>>>

InitFlagrant == Construct(FlagrantEvents, FlagrantTimes, MaxRows)

SpecFlagrant == InitFlagrant /\ [][Next]_vars

\* an explicit turnover, or a flagrant foul tagged as an implicit one
IsTurnoverRow(r) ==
    \/ r.EVENTMSGTYPE = 5
    \/ r.EVENTMSGTYPE = 6 /\ r.ACTION_DETAILS = "TO"

IsCopy(r) == r.EVENTMSGTYPE = 0

NotCopy(r) == ~IsCopy(r)

\* new is old with, right after every turnover row, one copy of it that
\* differs in EVENTMSGTYPE = 0 only, and nothing else added, moved or changed
Doubled(old, new) ==
    /\ SelectSeq(new, NotCopy) = old
    /\ \A i \in DOMAIN new :
          /\ IsTurnoverRow(new[i]) =>
                /\ i + 1 \in DOMAIN new
                /\ new[i + 1] = [new[i] EXCEPT !.EVENTMSGTYPE = 0]
                /\ i + 2 \in DOMAIN new => ~IsCopy(new[i + 2])
          /\ IsCopy(new[i]) => (i > 1 /\ IsTurnoverRow(new[i - 1]))

\* C19: _double_turnovers puts right after every turnover row (explicit, or
\* flagrant foul tagged TO) exactly one copy differing only in
\* EVENTMSGTYPE = 0, no type-0 row elsewhere, the other rows as they were.
C19_TurnoversDoubled ==
    [][(pc = "_double_turnovers" /\ pc' = "_assign_possession")
          => Doubled(df, df')]_vars

\* after the pass: a tagged flagrant foul and an explicit turnover, each
\* followed by its copy
C19_Witness ==
    /\ pc = "_assign_possession"
    /\ \E i, j \in DOMAIN df :
          /\ i < Len(df) /\ j < Len(df)
          /\ df[i].EVENTMSGTYPE = 6 /\ df[i].ACTION_DETAILS = "TO"
          /\ IsCopy(df[i + 1]) /\ df[i + 1].EVENTMSGACTIONTYPE = 14
          /\ df[j].EVENTMSGTYPE = 5 /\ IsCopy(df[j + 1])

IsFlagrant(r) == r.EVENTMSGTYPE = 6 /\ r.EVENTMSGACTIONTYPE = 14

\* a turnover of the fouling player is recorded at the time of the foul
TurnoverRecorded(d, i) ==
    \E x \in DOMAIN d :
        /\ d[x].ELAPSED_TIME = d[i].ELAPSED_TIME
        /\ d[x].EVENTMSGTYPE = 5
        /\ eq(d[x].PLAYER1_ID, d[i].PLAYER1_ID)

\* the possession-determining rows before row i
DeterminingBefore(d, i) == {j \in DOMAIN d : j < i /\ Identifies(d[j])}

\* C20: after _find_flagrant_to, a flagrant foul without a recorded turnover
\* of its player is tagged TO exactly when its team is the owner given by
\* the most recent possession-determining row before it, whatever came
\* earlier and whatever other flagrant fouls the table holds.
C20_FlagrantFromLatestOwner ==
    pc = "_double_turnovers" =>
        \A i \in DOMAIN df :
            (/\ IsFlagrant(df[i]) /\ ~TurnoverRecorded(df, i)
             /\ DeterminingBefore(df, i) # {})
                => (df[i].ACTION_DETAILS = "TO"
                      <=> eq(identified_team(df[Greatest(DeterminingBefore(df, i))]),
                             df[i].PLAYER1_TEAM_ID))

\* ------------------------------------------------------------------------
\* Rebound types
\* ------------------------------------------------------------------------

\* a foul, a missed shot, missed first and second free throws of the other
\* team, and player and team rebounds
ReboundEvents ==
    {<<"FOUL", 2>>, <<"MISS", 1>>, <<"FT_1OF2_MISS", 2>>,
     <<"FT_2OF2_MISS", 2>>, <<"REB", 1>>, <<"REB_TEAM", 2>>}

ReboundTimes == <<<<1, <<11, 40>>>>, <<1, <<11, 0>>>>>>

InitRebound == Construct(ReboundEvents, ReboundTimes, MaxRows)

SpecRebound == InitRebound /\ [][Next]_vars

IsMissedFT(r) == r.EVENTMSGTYPE = 3 /\ r.ACTION_DETAILS = "MISSED"

IsFinalFT(r) == r.EVENTMSGACTIONTYPE \in {10, 12, 15}

\* the missed field goals and missed free throws before row p
MissesBefore(d, p) ==
    {q \in 1..(p - 1) : d[q].EVENTMSGTYPE = 2 \/ IsMissedFT(d[q])}

\* the missed field goals and missed final free throws before row p
FinalMissesBefore(d, p) ==
    {q \in 1..(p - 1) :
        d[q].EVENTMSGTYPE = 2 \/ (IsMissedFT(d[q]) /\ IsFinalFT(d[q]))}

\* the tag of the rebound on row p when the miss on row q is its reference
TagFrom(d, p, q) ==
    (IF eq(d[q].PLAYER1_TEAM_ID, team_or_id(d[p]))
     THEN "OFFENSIVE" ELSE "DEFENSIVE")
        \o (IF d[p].PLAYER1_NAME = "null" THEN "-TEAM" ELSE "")

AfterReboundType == pc = "_shot_type"

\* C21 as stated: the reference miss of a rebound is the nearest preceding
\* missed field goal or missed final free throw.
C21_TagFromLastFinalMiss ==
    AfterReboundType =>
        \A p \in DOMAIN df :
            (IsTrueReb(df[p]) /\ FinalMissesBefore(df, p) # {}) =>
                df[p].ACTION_DETAILS
                    = TagFrom(df, p, Greatest(FinalMissesBefore(df, p)))

\* C21: the reference miss of a rebound is the nearest preceding missed field
\* goal or missed free throw, final or not; the rebound is OFFENSIVE when the
\* rebounding team is the team of that miss, DEFENSIVE otherwise, with the
\* suffix -TEAM when the rebound has no player name.
C21_TagFromLastMiss ==
    AfterReboundType =>
        \A p \in DOMAIN df :
            IsTrueReb(df[p]) =>
                /\ MissesBefore(df, p) # {}
                /\ df[p].ACTION_DETAILS
                      = TagFrom(df, p, Greatest(MissesBefore(df, p)))

\* a rebound of team 1 after a miss of team 1 and a missed first free throw
\* of team 2 is tagged from the free throw
C21_Witness ==
    /\ AfterReboundType
    /\ \E p \in DOMAIN df :
          /\ IsTrueReb(df[p]) /\ df[p].ACTION_DETAILS = "DEFENSIVE"
          /\ MissesBefore(df, p) # {} /\ FinalMissesBefore(df, p) # {}
          /\ ~IsFinalFT(df[Greatest(MissesBefore(df, p))])
          /\ IsMissedFT(df[Greatest(MissesBefore(df, p))])
          /\ TagFrom(df, p, Greatest(FinalMissesBefore(df, p))) = "OFFENSIVE"

\* the tags a real rebound can carry
ReboundTags == {"OFFENSIVE", "DEFENSIVE", "OFFENSIVE-TEAM", "DEFENSIVE-TEAM"}

\* C22: the step of _rebound_type leaves every rebound of subtype 0 with one
\* tag, the one computed from its own reference miss when it has one, also
\* when some rebound of the table has no miss in the scanned rows.
C22_EveryReboundTagged ==
    [][pc = "_rebound_type" =>
          \A p \in DOMAIN df' :
              IsTrueReb(df'[p]) =>
                  /\ df'[p].ACTION_DETAILS \in ReboundTags
                  /\ MissesBefore(df', p) # {} =>
                        df'[p].ACTION_DETAILS
                            = TagFrom(df', p, Greatest(MissesBefore(df', p)))]_vars

\* ------------------------------------------------------------------------
\* Reordered clusters
\* ------------------------------------------------------------------------

\* the two anomalies order_putback_frenzy raises by itself
DocumentedAnomalies == {"TooManyDrebs", "BucketDrebOpposing"}

\* new holds the rows of old, each once (EVENTNUM tells the raw rows apart)
SameRows(old, new) ==
    /\ Len(new) = Len(old)
    /\ {new[i] : i \in DOMAIN new} = {old[i] : i \in DOMAIN old}

\* C23: the step of _order_pbp either returns the rows it was given, each
\* once, or fails with one of the two anomalies of order_putback_frenzy,
\* whatever the numbers of missed shots and offensive rebounds of a cluster.
C23_ReorderedOrAnomaly ==
    [][pc = "_order_pbp" =>
          IF pc' = "failed" THEN failure' \in DocumentedAnomalies
          ELSE SameRows(df, df')]_vars

AfterOrderPbp == pc = "_adjust_putback_time"

IsClusterReb(r) ==
    r.EVENTMSGTYPE = 4 /\ r.ACTION_DETAILS \in {"OFFENSIVE", "DEFENSIVE"}

MakesAt(d, t) == {j \in ClusterAt(d, t) : d[j].EVENTMSGTYPE = 1}

RebsAt(d, t) == {j \in ClusterAt(d, t) : IsClusterReb(d[j])}

Contiguous(rows) == rows = Least(rows)..Greatest(rows)

\* the last row of the cluster of t is a made shot, and before it no two
\* neighbouring rows of the cluster are both misses or both rebounds
MakeLastAlternating(d, t) ==
    LET rows == ClusterAt(d, t)
        last == Greatest(rows)
    IN  /\ d[last].EVENTMSGTYPE = 1
        /\ \A j \in rows :
              (j + 1 \in rows /\ j + 1 < last) =>
                  (d[j].EVENTMSGTYPE = 2) # (d[j + 1].EVENTMSGTYPE = 2)

Timestamps(d) == {d[j].ELAPSED_TIME : j \in DOMAIN d}

DrebsAt(d, t) ==
    {j \in ClusterAt(d, t) : d[j].EVENTMSGTYPE = 4 /\ d[j].ACTION_DETAILS = "DEFENSIVE"}

\* the cluster of t is handed to order_putback_frenzy (two rows or more, a
\* shot without and-one tag) and holds two defensive rebounds or more
TwoDrebsHanded(d, t) ==
    /\ Examined(d, t) /\ Cardinality(ClusterAt(d, t)) > 1
    /\ Cardinality(DrebsAt(d, t)) > 1

\* C25 as stated: a cluster handed to the reordering with more than one
\* defensive rebound makes _order_pbp fail with the
\* too-many-defensive-rebounds anomaly, whatever else the cluster holds.
C25_TwoDrebsFail ==
    [][(pc = "_order_pbp" /\ \E t \in Timestamps(df) : TwoDrebsHanded(df, t))
          => (pc' = "failed" /\ failure' = "TooManyDrebs")]_vars

\* C25: such a cluster makes _order_pbp fail when its rows are adjacent and
\* it holds at most one made shot: with the too-many-defensive-rebounds
\* anomaly, or with the error of the cluster of another timestamp.
C25_TwoDrebsOneMakeFail ==
    [][(/\ pc = "_order_pbp"
        /\ \E t \in Timestamps(df) :
              /\ TwoDrebsHanded(df, t)
              /\ Contiguous(ClusterAt(df, t))
              /\ Cardinality(MakesAt(df, t)) <= 1) =>
          /\ pc' = "failed"
          /\ \/ failure' = "TooManyDrebs"
             \/ /\ failure' \in {"BucketDrebOpposing", "ValueError"}
                /\ \E j \in DOMAIN df :
                      order_putback_frenzy(
                          curr_sub_df(df, df[j].ELAPSED_TIME)).e = failure']_vars

\* the pass has failed with the anomaly on a cluster of a made shot and two
\* defensive rebounds
C25_Witness ==
    /\ pc = "failed" /\ failure = "TooManyDrebs"
    /\ \E t \in Timestamps(df) :
          /\ TwoDrebsHanded(df, t) /\ Contiguous(ClusterAt(df, t))
          /\ Cardinality(MakesAt(df, t)) = 1

\* the cluster of t holds a rebound and two made shots or more
TwoMakesAndReb(d, t) ==
    Cardinality(MakesAt(d, t)) > 1 /\ RebsAt(d, t) # {}

\* C26 as stated: a cluster with a rebound and more than one made shot makes
\* _order_pbp fail.
C26_TwoMakesFail ==
    [][(pc = "_order_pbp" /\ \E t \in Timestamps(df) : TwoMakesAndReb(df, t))
          => pc' = "failed"]_vars

\* C26: a cluster with a rebound and more than one made shot is returned as
\* it is: when _order_pbp returns, its rows are where and what they were,
\* and when _order_pbp fails, the error is that of another cluster.
C26_TwoMakesUntouched ==
    [][pc = "_order_pbp" =>
          \A t \in Timestamps(df) :
              TwoMakesAndReb(df, t) =>
                  /\ order_putback_frenzy(curr_sub_df(df, t)).e = "none"
                  /\ pc' # "failed" =>
                        \A j \in ClusterAt(df, t) : df'[j] = df[j]
                  /\ pc' = "failed" =>
                        \E u \in Timestamps(df) \ {t} :
                            order_putback_frenzy(curr_sub_df(df, u)).e
                                = failure']_vars

\* the pass has returned a cluster of two made shots, a miss and a rebound
\* that does not end on a made shot
C26_Witness ==
    /\ AfterOrderPbp
    /\ \E t \in Timestamps(df) :
          /\ TwoMakesAndReb(df, t) /\ Contiguous(ClusterAt(df, t))
          /\ df[Greatest(ClusterAt(df, t))].EVENTMSGTYPE # 1
          /\ \A j \in ClusterAt(df, t) : df[j].EVENTNUM = j

\* the rebounds and turnovers at timestamp t
RebsAndTOsAt(d, t) ==
    {j \in DOMAIN d : d[j].ELAPSED_TIME = t /\ d[j].EVENTMSGTYPE \in {4, 5}}

\* a rebound and a turnover alone at t, not on neighbouring rows
SplitRebTOPair(d, t) ==
    LET rows == RebsAndTOsAt(d, t)
    IN  /\ Cardinality(rows) = 2 /\ ~Contiguous(rows)
        /\ \E a, b \in rows : d[a].EVENTMSGTYPE = 4 /\ d[b].EVENTMSGTYPE = 5

\* a shot/rebound cluster of two rows or more, not on neighbouring rows
SplitCluster(d, t) ==
    Cardinality(ClusterAt(d, t)) > 1 /\ ~Contiguous(ClusterAt(d, t))

\* C27: the step of _handle_simultaneous_rebs_TOs leaves a rebound and a
\* turnover of one timestamp that are not adjacent as they are and does not
\* fail; the step of _order_pbp leaves a shot/rebound cluster that is not a
\* block of adjacent rows as it is and raises nothing for it.
C27_SplitGroupsUntouched ==
    [][/\ pc = "_handle_simultaneous_rebs_TOs" =>
             /\ pc' # "failed"
             /\ \A t \in Timestamps(df) :
                   SplitRebTOPair(df, t) =>
                       \A j \in RebsAndTOsAt(df, t) : df'[j] = df[j]
       /\ pc = "_order_pbp" =>
             \A t \in Timestamps(df) :
                 SplitCluster(df, t) =>
                     /\ order_putback_frenzy(curr_sub_df(df, t)).e = "none"
                     /\ pc' # "failed" =>
                           \A j \in ClusterAt(df, t) : df'[j] = df[j]]_vars

\* both passes have run on a table where a turnover sits between the rows of
\* a cluster of misses and a rebound, away from the rebound
C27_Witness ==
    /\ AfterOrderPbp
    /\ \E t \in Timestamps(df) :
          /\ SplitCluster(df, t) /\ SplitRebTOPair(df, t)
          /\ RebsAt(df, t) # {}
          /\ \A j \in ClusterAt(df, t) \cup RebsAndTOsAt(df, t) :
                df[j].EVENTNUM = j

\* "Rebounds and turnovers"
\* a rebound and a turnover of one timestamp on rows a and a + 1
AdjacentRebTO(d, a) ==
    /\ a \in DOMAIN d /\ a + 1 \in DOMAIN d
    /\ d[a].ELAPSED_TIME = d[a + 1].ELAPSED_TIME
    /\ {d[a].EVENTMSGTYPE, d[a + 1].EVENTMSGTYPE} = {4, 5}

\* in new, rows a and a + 1 hold the two rows of old, the rebound first
ReboundFirst(old, new, a) ==
    /\ new[a].EVENTMSGTYPE = 4 /\ new[a + 1].EVENTMSGTYPE = 5
    /\ {new[a], new[a + 1]} = {old[a], old[a + 1]}

\* rows that are neither rebound nor turnover are the same in old and new
OthersKept(old, new) ==
    /\ Len(new) = Len(old)
    /\ \A j \in DOMAIN old :
          old[j].EVENTMSGTYPE \notin {4, 5} => new[j] = old[j]

MissesAt(d, t) == {j \in ClusterAt(d, t) : d[j].EVENTMSGTYPE = 2}

\* the cluster of t is handed to order_putback_frenzy as a block of adjacent
\* rows with misses, one defensive rebound and no made shot
DrebNoMake(d, t) ==
    /\ Examined(d, t) /\ Contiguous(ClusterAt(d, t))
    /\ Cardinality(DrebsAt(d, t)) = 1
    /\ MakesAt(d, t) = {}

\* in the cluster of t, no two neighbouring rows other than the defensive
\* rebound are both misses or both rebounds
MissesAndOrebsAlternate(d, t) ==
    \A j \in ClusterAt(d, t) \ DrebsAt(d, t) :
        (j + 1 \in ClusterAt(d, t) \ DrebsAt(d, t)) =>
            (d[j].EVENTMSGTYPE = 2) # (d[j + 1].EVENTMSGTYPE = 2)

\* the defensive rebound of t stands at one end of the cluster, next to a
\* missed shot, and at the first end exactly when first is true
DrebAtEnd(d, t, first) ==
    LET rows == ClusterAt(d, t)
        p    == CHOOSE j \in DrebsAt(d, t) : TRUE
        s    == IF p = Least(rows) THEN p + 1 ELSE p - 1
    IN  /\ p \in {Least(rows), Greatest(rows)}
        /\ s \in MissesAt(d, t)
        /\ (p = Least(rows)) <=> first

\* the missed shot next to the defensive rebound of t is by the
\* rebounder's team
LastShooterIsRebounder(d, t) ==
    LET p == CHOOSE j \in DrebsAt(d, t) : TRUE
    IN  \E s \in MissesAt(d, t) \cap {p - 1, p + 1} :
            eq(d[s].PLAYER1_TEAM_ID, d[p].PLAYER1_TEAM_ID)

\* C29 as stated: when _order_pbp returns, a cluster of adjacent rows with
\* one defensive rebound and no made shot has its misses and offensive
\* rebounds alternating and the defensive rebound at one end next to a miss:
\* first when that miss is by the rebounder's team, last otherwise, however
\* many misses the cluster holds.
C29_DrebFirstWhenSameTeam ==
    [][(pc = "_order_pbp" /\ pc' # "failed") =>
          \A t \in Timestamps(df) :
              DrebNoMake(df, t) =>
                  /\ MissesAndOrebsAlternate(df', t)
                  /\ DrebAtEnd(df', t, LastShooterIsRebounder(df', t))]_vars

\* C29, amended: the defensive rebound is first only when the cluster
\* holds a single miss and that miss is by the rebounder's team; with two
\* misses or more it is last whatever the teams.
C29_DrebFirstWhenOneMissSameTeam ==
    [][(pc = "_order_pbp" /\ pc' # "failed") =>
          \A t \in Timestamps(df) :
              DrebNoMake(df, t) =>
                  /\ MissesAndOrebsAlternate(df', t)
                  /\ DrebAtEnd(df', t,
                         /\ Cardinality(MissesAt(df, t)) = 1
                         /\ LastShooterIsRebounder(df', t))]_vars

\* _order_pbp has returned and a cluster has its defensive rebound first,
\* before the single miss, which is by the rebounder's team
C29_Witness ==
    /\ AfterOrderPbp
    /\ \E t \in Timestamps(df) :
          /\ DrebNoMake(df, t) /\ Cardinality(MissesAt(df, t)) = 1
          /\ LastShooterIsRebounder(df, t)
          /\ DrebAtEnd(df, t, TRUE)

\* "Putbacks"
\* a miss or a missed second free throw, the offensive rebound and the tip-in,
\* with a foul of the other team, ten seconds apart
TipEvents ==
    {<<"MISS", 1>>, <<"FT_2OF2_MISS", 1>>, <<"REB", 1>>, <<"MADE_PUT", 1>>,
     <<"FOUL", 2>>}

TipTimes == <<<<1, <<11, 40>>>>, <<1, <<11, 30>>>>>>

InitTip == Construct(TipEvents, TipTimes, MaxPutbackRows)

SpecTip == InitTip /\ [][Next]_vars

\* row p is a putback attempt right after an individual offensive rebound
PutbackAfterOreb(d, p) ==
    /\ p \in DOMAIN d /\ p - 1 \in DOMAIN d
    /\ d[p].EVENTMSGTYPE \in {1, 2}
    /\ d[p].EVENTMSGACTIONTYPE \in {72, 97, 87, 107}
    /\ IsOffReb(d[p - 1])

\* the attempt rebounded at row p - 1: the last missed field goal or free
\* throw above it, 0 when there is none
ReboundedAttempt(d, p) ==
    LET above == {q \in 1..(p - 2) : d[q].EVENTMSGTYPE \in {2, 3}}
    IN  IF above = {} THEN 0 ELSE Greatest(above)

\* the three clock fields of the row say the same instant of its PERIOD
ClockAgrees(r) ==
    /\ timestring_to_seconds(r.PCTIMESTRING) = r.REMAINING_TIME
    /\ get_elapsed_time(r) = r.ELAPSED_TIME

InboundEvents ==
    {<<"MADE2", 1>>, <<"MADE2", 2>>, <<"FT_2OF2", 2>>, <<"FT_1OF2", 1>>}

InboundTimes ==
    <<<<1, <<1, 1>>>>, <<1, <<1, 0>>>>, <<4, <<2, 1>>>>, <<4, <<1, 30>>>>>>

MaxInboundRows == 3

InitInbound == Construct(InboundEvents, InboundTimes, MaxInboundRows)

SpecInbound == InitInbound /\ [][Next]_vars

AfterAssignClockOn ==
    pc \in {"_assign_chance_number", "_process_possessions", "_verify_parsing",
            "done"}

\* the score came with 60 seconds or less on the clock of periods 1 to 3,
\* or 120 seconds or less on the clock of period 4 or later
LateScore(r) ==
    LET left == timestring_to_seconds(r.PCTIMESTRING)
    IN  \/ r.PERIOD <= 3 /\ left <= 60
        \/ r.PERIOD >= 4 /\ left <= 120

\* row i is a live inbound and row i - 1 the score it was made from
InboundOf(d, i) ==
    /\ i \in DOMAIN d /\ i - 1 \in DOMAIN d
    /\ d[i].EVENTMSGTYPE = 20
    /\ d[i - 1].EVENTMSGTYPE \in {1, 3}
    /\ d[i - 1].EVENTNUM = d[i].EVENTNUM

\* C31 as stated: every live inbound, after a made basket or after a made
\* final free throw, has CLOCK_ON false exactly when its score came late in
\* the period.
C31_InboundClockByRule ==
    AfterAssignClockOn =>
        \A i \in DOMAIN df :
            InboundOf(df, i) => (df[i].CLOCK_ON <=> ~LateScore(df[i - 1]))

\* C31: the inbound after a made basket has CLOCK_ON false exactly when the
\* basket came late in the period; the inbound after a made final free
\* throw has CLOCK_ON false whatever the clock.
C31_InboundClockByRuleAfterBaskets ==
    AfterAssignClockOn =>
        \A i \in DOMAIN df :
            InboundOf(df, i) =>
                IF df[i - 1].EVENTMSGTYPE = 1
                THEN df[i].CLOCK_ON <=> ~LateScore(df[i - 1])
                ELSE ~df[i].CLOCK_ON

\* preprocess has completed with an inbound whose clock runs after a basket
\* at 2:01 of the fourth period, one whose clock is off after a basket at
\* 1:30, and one whose clock is off after a free throw at 1:01 of the first
C31_Witness ==
    /\ pc = "done"
    /\ \E i, j, k \in DOMAIN df :
          /\ InboundOf(df, i) /\ InboundOf(df, j) /\ InboundOf(df, k)
          /\ df[i - 1].EVENTMSGTYPE = 1 /\ df[i - 1].PERIOD = 4
          /\ df[i - 1].PCTIMESTRING = <<2, 1>> /\ df[i].CLOCK_ON
          /\ df[j - 1].EVENTMSGTYPE = 1 /\ df[j - 1].PERIOD = 4
          /\ df[j - 1].PCTIMESTRING = <<1, 30>> /\ ~df[j].CLOCK_ON
          /\ df[k - 1].EVENTMSGTYPE = 3 /\ df[k - 1].PERIOD = 1
          /\ df[k - 1].PCTIMESTRING = <<1, 1>> /\ ~df[k].CLOCK_ON

\* ------------------------------------------------------------------------
\* Set defense
\* ------------------------------------------------------------------------

\* misses of both teams, a defensive rebound, a foul that stops the clock,
\* a made basket and a dead-ball turnover
SetDefenseEvents ==
    {<<"MISS", 1>>, <<"MISS", 2>>, <<"REB", 2>>, <<"FOUL", 1>>,
     <<"MADE2", 1>>, <<"TO_DEAD", 2>>}

SetDefenseTimes == <<<<1, <<11, 40>>>>>>

MaxSetDefenseRows == 5

InitSetDefense ==
    Construct(SetDefenseEvents, SetDefenseTimes, MaxSetDefenseRows)

SpecSetDefense == InitSetDefense /\ [][Next]_vars

AfterProcessPossessions == pc \in {"_verify_parsing", "done"}

\* the rows of possession id, in table order
PossRows(d, id) == {i \in DOMAIN d : d[i].POSS_ID = id}

PossIds(d) == {d[i].POSS_ID : i \in DOMAIN d} \ {NaN}

\* a live inbound, a period start, a team defensive rebound, or the copy of
\* a turnover nobody stole
OpensSet(r) ==
    \/ r.EVENTMSGTYPE \in {12, 20}
    \/ r.EVENTMSGTYPE = 4 /\ r.ACTION_DETAILS = "DEFENSIVE-TEAM"
    \/ r.EVENTMSGTYPE = 0 /\ r.PLAYER2_ID = 0

\* C32: after the possessions are processed, a possession whose first row
\* is a live inbound, a period start, a team defensive rebound or a
\* dead-ball turnover has SET_DEFENSE true on every row; in any other
\* possession a row has SET_DEFENSE true exactly when its clock, or the
\* clock of an earlier row of the possession, is off; and no row with
\* SET_DEFENSE true is followed in its possession by a row where it is false.
C32_SetDefenseStaysSet ==
    AfterProcessPossessions =>
        \A id \in PossIds(df) :
            LET rows == PossRows(df, id)
            IN  /\ IF OpensSet(df[Least(rows)])
                   THEN \A i \in rows : df[i].SET_DEFENSE
                   ELSE \A i \in rows :
                           df[i].SET_DEFENSE <=>
                               \E x \in rows : x <= i /\ ~df[x].CLOCK_ON
                /\ \A i, j \in rows :
                      (i < j /\ df[i].SET_DEFENSE) => df[j].SET_DEFENSE

\* preprocess has completed with a possession that opens on a defensive
\* rebound, unset, is set from a foul on, and stays set on the miss after it
C32_Witness ==
    /\ pc = "done"
    /\ \E i, j, k \in DOMAIN df :
          /\ i < j /\ j < k
          /\ {i, j, k} \subseteq PossRows(df, df[i].POSS_ID)
          /\ i = Least(PossRows(df, df[i].POSS_ID))
          /\ df[i].EVENTMSGTYPE = 4
          /\ ~df[i].SET_DEFENSE
          /\ ~df[j].CLOCK_ON /\ df[j].SET_DEFENSE
          /\ df[k].CLOCK_ON /\ df[k].SET_DEFENSE

\* ------------------------------------------------------------------------
\* Blocked shots and the shot clock
\* ------------------------------------------------------------------------

\* a tip, a blocked and a plain miss of team 1 with their offensive
\* rebounds, and a foul of team 2 that stops the clock
BlockEvents ==
    {<<"JUMP", 1>>, <<"MISS_BLK", 1>>, <<"MISS", 1>>, <<"REB", 1>>,
     <<"FOUL", 2>>}

BlockTimes == <<<<1, <<11, 40>>>>>>

MaxBlockRows == 5

InitBlock == Construct(BlockEvents, BlockTimes, MaxBlockRows)

SpecBlock == InitBlock /\ [][Next]_vars

\* the row of the possession of row i that comes before it
PrevInPoss(d, i) == Greatest({x \in PossRows(d, d[i].POSS_ID) : x < i})

\* the shot clock of the previous row of the possession less the time run
\* since, as estimate_actual_time_remaining dates the two rows
Decremented(d, i) ==
    LET p == PrevInPoss(d, i)
        run == d[p].ACTUAL_REMAINING_TIME - d[i].ACTUAL_REMAINING_TIME
    IN  d[p].SHOTCLOCK - (IF run > 0 THEN run ELSE 0)

\* C33: in a processed possession, an offensive rebound (not the first row)
\* that follows a blocked miss with no rebound in between keeps the
\* decremented shot clock; an offensive rebound with a rebound between it
\* and the last blocked miss, or with no blocked miss before it, is at 14.
C33_BlockSuppressesOneRebound ==
    pc = "done" =>
        \A i \in DOMAIN df :
            (/\ IsOffReb(df[i]) \/ IsTeamOffReb(df[i])
             /\ ~isnan(df[i].POSS_ID)
             /\ ~FirstOfPossession(df, i)) =>
                IF FollowsBlock(df, i)
                THEN df[i].SHOTCLOCK = Decremented(df, i)
                ELSE df[i].SHOTCLOCK = 14

\* a completed run with a blocked miss, the offensive rebound after it left
\* at a shot clock other than 14, and a second offensive rebound at 14
C33_Witness ==
    /\ pc = "done"
    /\ \E m, i, k \in DOMAIN df :
          /\ m < i /\ i < k
          /\ df[m].POSS_ID = df[i].POSS_ID /\ df[i].POSS_ID = df[k].POSS_ID
          /\ df[m].EVENTMSGTYPE = 2 /\ ne(df[m].PLAYER3_ID, 0)
          /\ IsOffReb(df[i]) /\ FollowsBlock(df, i)
          /\ df[i].SHOTCLOCK # 14
          /\ IsOffReb(df[k]) /\ ~FollowsBlock(df, k)
          /\ df[k].SHOTCLOCK = 14
          /\ \A x \in (m + 1)..(k - 1) :
                ~(df[x].EVENTMSGTYPE = 2 /\ ne(df[x].PLAYER3_ID, 0))

\* ------------------------------------------------------------------------
\* Events outside the classification of clock_on
\* ------------------------------------------------------------------------

\* an event of a type clock_on does not know, a turnover and a rebound of
\* subtypes the pipeline names nowhere, among a miss and a live turnover
UnsupportedEvents ==
    {<<"OTHER", 1>>, <<"TO_ODD", 1>>, <<"REB_ODD", 2>>, <<"MISS", 2>>,
     <<"TO_LIVE", 1>>}

UnsupportedTimes == <<<<1, <<11, 40>>>>>>

InitUnsupported == Construct(UnsupportedEvents, UnsupportedTimes, MaxRows)

SpecUnsupported == InitUnsupported /\ [][Next]_vars

\* the event types clock_on has a branch for
KnownTypes == {0, 1, 2, 3, 4, 5, 6, 7, 8, 9, 10, 11, 12, 13, 18, 20}

\* the turnover subtypes named in the pipeline: live (clock_on), team
\* (_identify_TO_team), excess timeout (_notify_excess_timeout_technicals)
NamedTurnoverSubtypes == {1, 2, 9, 10, 11, 42}

\* the row's type is known and, where the classification reads a subtype
\* or a detail tag, that subtype or tag is one it names
Recognized(r) ==
    /\ r.EVENTMSGTYPE \in KnownTypes
    /\ r.EVENTMSGTYPE \in {0, 5} => r.EVENTMSGACTIONTYPE \in NamedTurnoverSubtypes
    /\ r.EVENTMSGTYPE = 20 => r.EVENTMSGACTIONTYPE \in {1, 2}
    /\ r.EVENTMSGTYPE = 4 => r.ACTION_DETAILS \in
          {"OFFENSIVE", "DEFENSIVE", "OFFENSIVE-TEAM", "DEFENSIVE-TEAM", "FAKE"}
    /\ r.EVENTMSGTYPE = 1 => r.ACTION_DETAILS \in
          {"2PT", "3PT", "2PT-AND1", "3PT-AND1"}

\* the same, every subtype of a turnover counting as named
RecognizedOrTurnover(r) == r.EVENTMSGTYPE \in {0, 5} \/ Recognized(r)

\* C34 as stated: _assign_clock_on fails whenever a row's type is unknown
\* or its subtype is not one the classification names, and returns
\* otherwise.
C34_UnrecognizedFails ==
    [][pc = "_assign_clock_on" =>
          ((\E i \in DOMAIN df : ~Recognized(df[i])) <=> pc' = "failed")]_vars

\* C34: _assign_clock_on fails exactly when a row has an unknown type or is
\* a rebound, a made shot or an inbound whose tag or subtype is not named;
\* a turnover of any subtype other than 1 and 2 is given CLOCK_ON false.
C34_UnrecognizedFailsButTurnovers ==
    [][pc = "_assign_clock_on" =>
          /\ (\E i \in DOMAIN df : ~RecognizedOrTurnover(df[i]))
                <=> (pc' = "failed" /\ failure' = "Exception")
          /\ pc' # "failed" =>
                \A i \in DOMAIN df :
                    (df[i].EVENTMSGTYPE \in {0, 5}
                     /\ df[i].EVENTMSGACTIONTYPE \notin {1, 2})
                        => ~df'[i].CLOCK_ON]_vars

\* the pass has failed on a row of unknown type in a table whose turnover
\* of subtype 99 had been duplicated
C34_Witness ==
    /\ pc = "failed" /\ failure = "Exception"
    /\ \E i, j, k \in DOMAIN df :
          /\ df[i].EVENTMSGTYPE = 19
          /\ df[j].EVENTMSGTYPE = 5 /\ df[j].EVENTMSGACTIONTYPE = 99
          /\ df[k].EVENTMSGTYPE = 0 /\ df[k].EVENTMSGACTIONTYPE = 99

\* ------------------------------------------------------------------------
\* Periods that open on a jump ball
\* ------------------------------------------------------------------------

\* tips won by either team, a turnover before the tip and a shot, over the
\* first, second, third and fourth periods
TipRuleEvents ==
    {<<"TO_DEAD", 2>>, <<"JUMP", 2>>, <<"JUMP", 1>>, <<"MISS", 1>>}

TipRuleTimes ==
    <<<<1, <<11, 40>>>>, <<2, <<12, 0>>>>, <<3, <<12, 0>>>>, <<4, <<12, 0>>>>>>

InitTipRule == Construct(TipRuleEvents, TipRuleTimes, MaxRows)

SpecTipRule == InitTipRule /\ [][Next]_vars

\* the jump balls of the first period; the first of them is the opening tip
OpeningTips(d) == {i \in RowsOfPeriod(d, 1) : d[i].EVENTMSGTYPE = 10}

OpeningTipWinner(d) == int(d[Least(OpeningTips(d))].ACTION_DETAILS)

StartsOnJumpBall(d, p) ==
    /\ RowsOfPeriod(d, p) # {}
    /\ d[Least(RowsOfPeriod(d, p))].EVENTMSGTYPE = 10

\* C35: after _assign_possession, when a game has an opening tip and period
\* 2, 3 or 4 starts on a jump ball, the first row of that period is owned by
\* the loser of the opening tip (periods 2 and 3) or by its winner (period
\* 4), whatever else the first period and the rest of the period hold.
C35_OpensByTipRule ==
    AfterAssignPossession =>
        \A p \in {2, 3, 4} :
            (OpeningTips(df) # {} /\ StartsOnJumpBall(df, p)) =>
                df[Least(RowsOfPeriod(df, p))].POSS
                    = IF p = 4 THEN OpeningTipWinner(df)
                      ELSE inverter[OpeningTipWinner(df)]

\* the first possession-starting row of the table and of period p
FirstStart(d) == Least({i \in DOMAIN d : StartsPossession(d, i)})

FirstStartIn(d, p) == Least(StartsIn(d, p))

\* C35: in a table that begins in period 1, when the first
\* possession-starting row of period 2, 3 or 4 is a jump ball (one that is
\* not followed by a turnover of the team that lost it), the first row of
\* that period is owned by the opponent of the owner designated by the first
\* possession-starting row of the table (periods 2 and 3) or by that owner
\* (period 4).
C35_OpensByFirstOwnerRule ==
    (AfterAssignPossession /\ RowsOfPeriod(df, 1) # {}) =>
        \A p \in {2, 3, 4} :
            (/\ StartsIn(df, p) # {}
             /\ df[FirstStartIn(df, p)].EVENTMSGTYPE = 10) =>
                df[Least(RowsOfPeriod(df, p))].POSS
                    = IF p = 4 THEN Designated(df[FirstStart(df)])
                      ELSE inverter[Designated(df[FirstStart(df)])]

\* the fourth period opens on a jump ball won by the team that lost the
\* opening tip, and its first row belongs to the winner of the opening tip
C35_Witness ==
    /\ pc = "_assign_defense" /\ OpeningTips(df) # {}
    /\ FirstStart(df) = Least(OpeningTips(df))
    /\ StartsOnJumpBall(df, 4)
    /\ StartsPossession(df, Least(RowsOfPeriod(df, 4)))
    /\ int(df[Least(RowsOfPeriod(df, 4))].ACTION_DETAILS)
          = inverter[OpeningTipWinner(df)]
    /\ df[Least(RowsOfPeriod(df, 4))].POSS = OpeningTipWinner(df)

\* ------------------------------------------------------------------------
\* raw_pbp_downloader.py: the download loop across crashes and restarts
\* ------------------------------------------------------------------------

\* games of the season, and runs of the script that are cut short
NumGames == 2

MaxCrashes == 3

\* the GAME_ID strings of LeagueGameLog, with their leading zeros
game_id_of(k) == "002190000" \o ToString(k)

game_ids == [k \in 1..NumGames |-> game_id_of(k)]

\* PlayByPlayV2(game_id).get_data_frames()[0] after drop_duplicates: the
\* rows of the game, each carrying its GAME_ID
PlayByPlayV2(game_id) == <<<<game_id, 1>>, <<game_id, 2>>>>

\* the line of column names of the output file
output_header == <<"GAME_ID", 0>>

\* what curr_game_pbp.to_csv writes: with the header when the file does not
\* exist, in append mode without it otherwise
output_lines(file, pbp) == IF file = <<>> THEN <<output_header>> \o pbp ELSE pbp

\* game_id_df.to_csv(mode="a", index=False) written without its header
finished_lines_no_header(game_id) == <<game_id>>

\* what game_id_df.to_csv(mode="a", index=False) appends: header=True is
\* the default, so the column name is written again before the id
finished_lines(game_id) == <<"GAME_ID", game_id>>

\* pd.read_csv(file)["GAME_ID"].to_numpy(): the lines after the first; the
\* column is parsed as int64 when every one of them is a number, and is
\* left as the strings of the file otherwise
read_csv_values(file) == Tail(file)

parsed_as_int64(file) ==
    /\ read_csv_values(file) # <<>>
    /\ \A k \in DOMAIN read_csv_values(file) : read_csv_values(file)[k] # "GAME_ID"

\* game_id in finished_games: game_id is a string, which equals no int64
is_finished(game_id, file) ==
    /\ ~parsed_as_int64(file)
    /\ \E k \in DOMAIN read_csv_values(file) : read_csv_values(file)[k] = game_id

curr_game_id == game_ids[loop_i + 1]

Prefixes(lines) == {SubSeq(lines, 1, k) : k \in 0..Len(lines)}

PipelineUnused == UNCHANGED <<df, raw_df, inverter, pc, failure, verify, lvars>>

\* the script up to the loop: the finished-games file is created if missing
CreateFiles ==
    /\ dpc = "start"
    /\ finished_games_file' =
          IF finished_games_file = <<>> THEN <<"GAME_ID">> ELSE finished_games_file
    /\ loop_i' = 0
    /\ dpc' = "loop"
    /\ UNCHANGED <<output_file, curr_game_pbp, crashes>>
    /\ PipelineUnused

\* "Already did game": the id was read in the finished-games file
AlreadyDid ==
    /\ dpc = "loop" /\ loop_i < Len(game_ids)
    /\ is_finished(curr_game_id, finished_games_file)
    /\ loop_i' = loop_i + 1
    /\ UNCHANGED <<output_file, finished_games_file, curr_game_pbp, dpc, crashes>>
    /\ PipelineUnused

\* the API call
ApiCall ==
    /\ dpc = "loop" /\ loop_i < Len(game_ids)
    /\ ~is_finished(curr_game_id, finished_games_file)
    /\ curr_game_pbp' = PlayByPlayV2(curr_game_id)
    /\ dpc' = "save"
    /\ UNCHANGED <<output_file, finished_games_file, loop_i, crashes>>
    /\ PipelineUnused

\* curr_game_pbp.to_csv(output_file, ...)
SaveRows ==
    /\ dpc = "save"
    /\ output_file' = output_file \o output_lines(output_file, curr_game_pbp)
    /\ dpc' = "record"
    /\ UNCHANGED <<finished_games_file, loop_i, curr_game_pbp, crashes>>
    /\ PipelineUnused

\* game_id_df.to_csv(finished_games_file, mode="a", index=False); i += 1
RecordFinished ==
    /\ dpc = "record"
    /\ finished_games_file' = finished_games_file \o finished_lines(curr_game_id)
    /\ loop_i' = loop_i + 1
    /\ dpc' = "loop"
    /\ UNCHANGED <<output_file, curr_game_pbp, crashes>>
    /\ PipelineUnused

\* the loop is exhausted: the run is complete
RunComplete ==
    /\ dpc = "loop" /\ loop_i = Len(game_ids)
    /\ dpc' = "done"
    /\ UNCHANGED <<output_file, finished_games_file, loop_i, curr_game_pbp, crashes>>
    /\ PipelineUnused

\* the process ends before its next statement (an exception of the API, a
\* kill): a write that was under way has put any part of its lines in the
\* file
Crash ==
    /\ dpc \in {"start", "loop", "save", "record"}
    /\ crashes < MaxCrashes
    /\ crashes' = crashes + 1
    /\ dpc' = "crashed"
    /\ \E written \in
            IF dpc = "save" THEN Prefixes(output_lines(output_file, curr_game_pbp))
            ELSE {<<>>} :
          output_file' = output_file \o written
    /\ \E written \in
            IF dpc = "record" THEN Prefixes(finished_lines(curr_game_id))
            ELSE {<<>>} :
          finished_games_file' = finished_games_file \o written
    /\ UNCHANGED <<loop_i, curr_game_pbp>>
    /\ PipelineUnused

\* the script is run again: the files are what the previous run left
Restart ==
    /\ dpc \in {"crashed", "done"}
    /\ dpc' = "start"
    /\ loop_i' = 0
    /\ curr_game_pbp' = <<>>
    /\ UNCHANGED <<output_file, finished_games_file, crashes>>
    /\ PipelineUnused

Run == CreateFiles \/ AlreadyDid \/ ApiCall \/ SaveRows \/ RecordFinished \/ RunComplete

NextDownloader == Run \/ Crash \/ Restart

InitDownloader ==
    /\ output_file = <<>> /\ finished_games_file = <<>>
    /\ loop_i = 0 /\ curr_game_pbp = <<>>
    /\ dpc = "start" /\ crashes = 0
    /\ df = <<>> /\ raw_df = <<>> /\ inverter = <<>>
    /\ pc = "unused" /\ failure = "none" /\ verify = FALSE
    /\ home_rotation_df = <<>> /\ away_rotation_df = <<>>
    /\ fill = "PERSON_ID" /\ output_dic = <<>>

SpecDownloader == InitDownloader /\ [][NextDownloader]_vars

\* a run that can take a step takes it, and a run that ended is followed by
\* another
SpecDownloaderRepeated ==
    InitDownloader /\ [][NextDownloader]_vars /\ WF_vars(Run) /\ WF_vars(Restart)

\* game_id is a line of the finished-games file
RecordedIn(game_id, file) == \E k \in DOMAIN file : file[k] = game_id

\* the rows of game_id stand in the output file, whole and in order
RowsIn(game_id, file) ==
    \E k \in 1..Len(file) :
        /\ k + Len(PlayByPlayV2(game_id)) - 1 <= Len(file)
        /\ SubSeq(file, k, k + Len(PlayByPlayV2(game_id)) - 1) = PlayByPlayV2(game_id)

EveryRecordedHasRows ==
    \A k \in 1..NumGames :
        RecordedIn(game_id_of(k), finished_games_file) =>
            RowsIn(game_id_of(k), output_file)

SeasonRecorded ==
    \A k \in 1..NumGames : RecordedIn(game_id_of(k), finished_games_file)

Occurrences(line, file) == Cardinality({k \in DOMAIN file : file[k] = line})

\* C37: when a run completes, after any crashes and restarts, every row of
\* every game stands exactly once in the output file.
C37_RowsExactlyOnce ==
    dpc = "done" =>
        \A k \in 1..NumGames :
            \A n \in DOMAIN PlayByPlayV2(game_id_of(k)) :
                Occurrences(PlayByPlayV2(game_id_of(k))[n], output_file) = 1

\* ------------------------------------------------------------------------
\* assign_lineups
\* ------------------------------------------------------------------------

is_period_marking_timestamp(time_elapsed_int) ==
    IF time_elapsed_int <= 4 * 12 * 60 * 10
    THEN time_elapsed_int % (12 * 60 * 10) = 0
    ELSE (time_elapsed_int - 4 * 12 * 60 * 10) % (5 * 60 * 10) = 0

get_period_from_real_check_in_time(time_elapsed_int) ==
    IF time_elapsed_int < 12 * 60 * 4 * 10
    THEN time_elapsed_int \div (12 * 60 * 10) + 1
    ELSE (time_elapsed_int - 12 * 60 * 4 * 10) \div (5 * 60 * 10) + 5

get_period_from_real_check_out_time(time_elapsed_int) ==
    IF time_elapsed_int < 12 * 60 * 4 * 10
    THEN time_elapsed_int \div (12 * 60 * 10)
    ELSE (time_elapsed_int - 12 * 60 * 4 * 10) \div (5 * 60 * 10) + 4

\* math.ceil(t / 10) * 10
ceil_to_second(t) == ((t + 9) \div 10) * 10

\* the check-in and check-out times of a rotation row taken as recorded
interval_as_recorded(row) ==
    [check_in_time_real |-> row.IN_TIME_REAL,
     check_out_time_real |-> row.OUT_TIME_REAL]

\* the check-in and check-out times of a rotation row, flipped when the
\* check-out is before the check-in
interval(row) ==
    IF row.OUT_TIME_REAL < row.IN_TIME_REAL
    THEN [check_in_time_real |-> row.OUT_TIME_REAL,
          check_out_time_real |-> row.IN_TIME_REAL]
    ELSE [check_in_time_real |-> row.IN_TIME_REAL,
          check_out_time_real |-> row.OUT_TIME_REAL]

\* the positions selected for the check-in or check-out time of a row
PeriodRowsAt(d, period, t) ==
    {k \in DOMAIN d : d[k].PERIOD = period /\ d[k].ELAPSED_TIME = t}

SubRowsAt(d, t) ==
    {k \in DOMAIN d : d[k].EVENTMSGTYPE = 8 /\ d[k].ELAPSED_TIME = t}

\* check_in_index and check_out_index of one rotation row (positions; the
\* label is the position minus one); side is "HOME" or "AWAY": the home
\* loop takes .index[0] of the substitutions, the away loop .index[-1]
rotation_span(d, row, side) ==
    LET t == interval(row)
        check_in_time_rounded == ceil_to_second(t.check_in_time_real)
        check_out_time_rounded == ceil_to_second(t.check_out_time_real)
        in_marks == is_period_marking_timestamp(t.check_in_time_real)
        out_marks == is_period_marking_timestamp(t.check_out_time_real)
        in_rows ==
            IF in_marks
            THEN PeriodRowsAt(d,
                    get_period_from_real_check_in_time(t.check_in_time_real),
                    check_in_time_rounded)
            ELSE SubRowsAt(d, check_in_time_rounded)
        out_rows ==
            IF out_marks
            THEN PeriodRowsAt(d,
                    get_period_from_real_check_out_time(t.check_out_time_real),
                    check_out_time_rounded)
            ELSE SubRowsAt(d, check_out_time_rounded)
    IN  IF in_rows = {} \/ out_rows = {}
        THEN [e |-> "IndexError", check_in_index |-> 0, check_out_index |-> 0]
        ELSE [e |-> "none",
              check_in_index |->
                  IF in_marks \/ side = "HOME" THEN Least(in_rows)
                  ELSE Greatest(in_rows),
              check_out_index |->
                  IF out_marks THEN Greatest(out_rows)
                  ELSE IF side = "HOME" THEN Least(out_rows) - 1
                  ELSE Greatest(out_rows) - 1]

\* x + [fill_contents] on the rows check_in_index..check_out_index
add_to_lineup(d, span, side, fill_contents) ==
    [k \in DOMAIN d |->
        IF span.check_in_index <= k /\ k <= span.check_out_index
        THEN IF side = "HOME"
             THEN [d[k] EXCEPT !.HOME_LINEUP = Append(@, fill_contents)]
             ELSE [d[k] EXCEPT !.AWAY_LINEUP = Append(@, fill_contents)]
        ELSE d[k]]

\* one of the two loops over a rotation table, from its row k on
RECURSIVE rotation_loop(_, _, _, _, _)
rotation_loop(d, rotation_df, k, side, fill_col) ==
    IF k > Len(rotation_df) THEN Ok(d)
    ELSE LET span == rotation_span(d, rotation_df[k], side)
         IN  IF span.e # "none" THEN Raise(d, span.e)
             ELSE rotation_loop(
                     add_to_lineup(d, span, side, rotation_df[k][fill_col]),
                     rotation_df, k + 1, side, fill_col)

\* str(x) of an entry of a lineup
str_of(x, fill_col) == IF fill_col = "PERSON_ID" THEN ToString(x) ELSE x

\* "-".join(map(str, a_list)) with a "-" on both sides
RECURSIVE joined(_, _, _)
joined(a_list, sep, fill_col) ==
    IF a_list = <<>> THEN ""
    ELSE IF Len(a_list) = 1 THEN str_of(a_list[1], fill_col)
    ELSE str_of(a_list[1], fill_col) \o sep \o joined(Tail(a_list), sep, fill_col)

line_hash(a_list, fill_col) == "-" \o joined(a_list, "-", fill_col) \o "-"

\* assign_lineups(home_rotation_df, away_rotation_df, fill, hash_col=True)
lineups_assigned(d, home, away, fill_col) ==
    LET empty == [k \in DOMAIN d |->
                    [d[k] EXCEPT !.HOME_LINEUP = <<>>, !.AWAY_LINEUP = <<>>]]
        h == rotation_loop(empty, home, 1, "HOME", fill_col)
        a == rotation_loop(h.d, away, 1, "AWAY", fill_col)
    IN  IF h.e # "none" THEN h
        ELSE IF a.e # "none" THEN a
        ELSE Ok([k \in DOMAIN d |->
                [a.d[k] EXCEPT
                    !.HOME_LINE_HASH = line_hash(a.d[k].HOME_LINEUP, fill_col),
                    !.AWAY_LINE_HASH = line_hash(a.d[k].AWAY_LINEUP, fill_col)]])

\* the rotation tables handed to assign_lineups: the players of the home
\* team (team 1) and of the away team, on court from the start of the
\* period, from or until the substitution at 11:40, until the end of the
\* period; some intervals are recorded with their two times flipped
MaxIntervals == 2

RotationRow(id, name, in, out) ==
    [PERSON_ID |-> id, PLAYER_LAST |-> name,
     IN_TIME_REAL |-> in, OUT_TIME_REAL |-> out]

HomeIntervals ==
    {RotationRow(101, "h1", 0, 7200), RotationRow(101, "h1", 0, 195),
     RotationRow(102, "h2", 195, 7200), RotationRow(102, "h2", 7200, 195)}

AwayIntervals ==
    {RotationRow(201, "a1", 0, 7200), RotationRow(201, "a1", 195, 7200)}

HomeRotations ==
    UNION {[1..n -> HomeIntervals] : n \in 1..MaxIntervals}

AwayRotations == [1..1 -> AwayIntervals]

assign_lineups ==
    /\ pc = "done"
    /\ \E home \in HomeRotations, away \in AwayRotations,
          fill_col \in {"PERSON_ID", "PLAYER_LAST"} :
         \E r \in {lineups_assigned(df, home, away, fill_col)} :
            /\ home_rotation_df' = home
            /\ away_rotation_df' = away
            /\ fill' = fill_col
            /\ df' = r.d
            /\ pc' = IF r.e = "none" THEN "create_shared_poss_dict" ELSE "failed"
            /\ failure' = r.e
    /\ UNCHANGED <<raw_df, inverter, verify, output_dic, dvars>>

\* ------------------------------------------------------------------------
\* create_shared_poss_dict
\* ------------------------------------------------------------------------

\* the order of the strings that name the players
NameOrder == <<"a1", "h1", "h2">>

name_rank(x) == CHOOSE k \in DOMAIN NameOrder : NameOrder[k] = x

\* sorted(x) of a list of names
sorted(x) == SortSeq(x, LAMBDA a, b : name_rank(a) < name_rank(b))

\* "_".join(sorted(x)): defined for a list of strings only
line_str(x) == joined(sorted(x), "_", "PLAYER_LAST")

Count(list, x) == Cardinality({k \in DOMAIN list : list[k] = x})

RECURSIVE Sum(_, _)
Sum(f, S) ==
    IF S = {} THEN 0
    ELSE LET x == CHOOSE y \in S : TRUE IN f[x] + Sum(f, S \ {x})

\* the credits are counted in units of 1 / CreditUnit, which every number
\* of configurations of a possession of the tables divides
CreditUnit == 420

\* Series.round(3) of a credit, in thousandths
round3(units) == (2000 * units + CreditUnit) \div (2 * CreditUnit)

\* self._get_teams(): the unique non-null PLAYER1_TEAM_ID, in order of
\* appearance in the table
get_teams(d) ==
    IF Len(team_ids(d)) # 2 THEN [e |-> "Warning", teams |-> <<>>]
    ELSE [e |-> "none", teams |-> team_ids(d)]

\* the rows of the team on offense, after drop_duplicates on POSS_ID and
\* the two line strings: the first row of every configuration
attacking_lineups(d, team_id) ==
    LET rows == {k \in DOMAIN d : d[k].POSS = team_id}
        key(k) == <<d[k].POSS_ID, line_str(d[k].HOME_LINEUP),
                    line_str(d[k].AWAY_LINEUP)>>
    IN  {k \in rows : \A j \in rows : key(j) = key(k) => k <= j}

\* value_counts of POSS_ID over the rows kept
sub_counts(d, kept, poss_id) ==
    Cardinality({k \in kept : d[k].POSS_ID = poss_id})

\* the credit (in units) a loop over the rows kept gives the pair
\* (player, other), player counted in the lineup of the named column
loop_credit(d, kept, own_home, player, other) ==
    LET given == [k \in kept |->
            LET own == IF own_home THEN d[k].HOME_LINEUP ELSE d[k].AWAY_LINEUP
                all_players == d[k].HOME_LINEUP \o d[k].AWAY_LINEUP
            IN  Count(own, player) * Count(all_players, other)
                    * (CreditUnit \div sub_counts(d, kept, d[k].POSS_ID))]
    IN  Sum(given, kept)

\* the dictionary returned, read with home_id and away_id as given
shared_poss_dict(d, home_id, away_id) ==
    LET home_players == UNION {Range(d[k].HOME_LINEUP) : k \in DOMAIN d}
        away_players == UNION {Range(d[k].AWAY_LINEUP) : k \in DOMAIN d}
        all_players == home_players \cup away_players
        home_attacking == attacking_lineups(d, home_id)
        away_attacking == attacking_lineups(d, away_id)
    IN  [OFF_POSS |->
            [p \in all_players |-> [q \in all_players |->
                round3(loop_credit(d, home_attacking, TRUE, p, q)
                       + loop_credit(d, away_attacking, FALSE, p, q))]],
         DEF_POSS |->
            [p \in all_players |-> [q \in all_players |->
                round3(loop_credit(d, home_attacking, FALSE, p, q)
                       + loop_credit(d, away_attacking, TRUE, p, q))]]]

\* create_shared_poss_dict(); ints: the lineups hold numbers, which
\* "_".join rejects
create_shared_poss_dict_of(d, ints) ==
    LET t == get_teams(d)
        joins_numbers ==
            ints /\ \E k \in DOMAIN d :
                        /\ d[k].POSS \in Range(t.teams)
                        /\ (d[k].HOME_LINEUP # <<>> \/ d[k].AWAY_LINEUP # <<>>)
    IN  IF t.e # "none" THEN [e |-> t.e, dic |-> <<>>]
        ELSE IF joins_numbers THEN [e |-> "TypeError", dic |-> <<>>]
        ELSE [e |-> "none", dic |-> shared_poss_dict(d, t.teams[1], t.teams[2])]

create_shared_poss_dict ==
    /\ pc = "create_shared_poss_dict"
    /\ \E r \in {create_shared_poss_dict_of(df, fill = "PERSON_ID")} :
         /\ output_dic' = r.dic
         /\ pc' = IF r.e = "none" THEN "returned" ELSE "failed"
         /\ failure' = r.e
    /\ UNCHANGED <<df, raw_df, inverter, verify, dvars,
                   home_rotation_df, away_rotation_df, fill>>

\* ------------------------------------------------------------------------
\* One period of a game, its lineups and its shared possessions
\* ------------------------------------------------------------------------

\* substitutions and turnovers of both teams at 11:40, between the start
\* and the end of the first period
MaxMiddleRows == 3

MiddleEvents ==
    {<<"SUB", 1>>, <<"SUB", 2>>, <<"TO_DEAD", 1>>, <<"TO_DEAD", 2>>}

GameTables ==
    UNION {{<<RawRow(<<"START", 1>>, <<1, <<12, 0>>>>, 1)>>
            \o [k \in 1..n |-> RawRow(ev[k], <<1, <<11, 40>>>>, k + 1)]
            \o <<RawRow(<<"END", 1>>, <<1, <<0, 0>>>>, n + 2)>> :
                ev \in [1..n -> MiddleEvents]} : n \in 1..MaxMiddleRows}

InitLineups ==
    \E table \in GameTables :
      \E ids \in {team_ids(table)} :
        /\ Len(ids) >= 2
        /\ raw_df = table
        /\ df = table
        /\ inverter = (ids[1] :> ids[2]) @@ (ids[2] :> ids[1])
        /\ pc = "_notify_excess_timeout_technicals"
        /\ failure = "none"
        /\ verify = FALSE
        /\ output_file = <<>> /\ finished_games_file = <<>>
        /\ loop_i = 0 /\ curr_game_pbp = <<>>
        /\ dpc = "unused" /\ crashes = 0
        /\ home_rotation_df = <<>> /\ away_rotation_df = <<>>
        /\ fill = "PERSON_ID" /\ output_dic = <<>>

NextLineups == Next \/ assign_lineups \/ create_shared_poss_dict

SpecLineups == InitLineups /\ [][NextLineups]_vars

\* the team whose plays are described in HOMEDESCRIPTION, whose players
\* home_rotation_df lists
HomeTeam == 1

PossessionIds(d) == {d[k].POSS_ID : k \in DOMAIN d}

Owner(d, id) == d[CHOOSE k \in DOMAIN d : d[k].POSS_ID = id].POSS

\* the distinct configurations of a possession: who is on court for the
\* home team and for the away team
Configurations(d, id) ==
    {<<Range(d[k].HOME_LINEUP), Range(d[k].AWAY_LINEUP)>> :
        k \in {j \in DOMAIN d : d[j].POSS_ID = id}}

\* the credit (in units) of the pair (p, q): over the possessions, every
\* configuration in which p is on court for the team on offense (or, for
\* the defense matrix, for the team defending) and q is on court gives
\* one n-th, n the number of configurations of the possession
credit_by_possession(d, p, q, offense) ==
    LET own(c, id) == IF (Owner(d, id) = HomeTeam) = offense THEN c[1] ELSE c[2]
        of_possession ==
            [id \in PossessionIds(d) |->
                Sum([c \in Configurations(d, id) |->
                        IF p \in own(c, id) /\ q \in c[1] \cup c[2]
                        THEN CreditUnit \div Cardinality(Configurations(d, id))
                        ELSE 0],
                    Configurations(d, id))]
    IN  Sum(of_possession, PossessionIds(d))

NoPlayerTwice(d) ==
    \A k \in DOMAIN d :
        /\ Cardinality(Range(d[k].HOME_LINEUP)) = Len(d[k].HOME_LINEUP)
        /\ Cardinality(Range(d[k].AWAY_LINEUP)) = Len(d[k].AWAY_LINEUP)

CreditedByPossession ==
    \A p \in DOMAIN output_dic.OFF_POSS : \A q \in DOMAIN output_dic.OFF_POSS :
        /\ output_dic.OFF_POSS[p][q] = round3(credit_by_possession(df, p, q, TRUE))
        /\ output_dic.DEF_POSS[p][q] = round3(credit_by_possession(df, p, q, FALSE))

\* C38: the dictionary create_shared_poss_dict returns (lineups in which no
\* player stands twice) credits, for every possession, the on-court players
\* of the team in possession in OFF_POSS and those of the defending team in
\* DEF_POSS, one n-th per distinct configuration of the possession to every
\* pair (own-team player, on-court player), whichever team appears first in
\* the table.
C38_CreditsByPossession ==
    (pc = "returned" /\ NoPlayerTwice(df)) => CreditedByPossession

\* ------------------------------------------------------------------------
\* Rotation intervals and the rows they cover
\* ------------------------------------------------------------------------

\* the rotation table with the two times of every row exchanged
Flipped(rotation_df) ==
    [j \in DOMAIN rotation_df |->
        [rotation_df[j] EXCEPT !.IN_TIME_REAL = rotation_df[j].OUT_TIME_REAL,
                               !.OUT_TIME_REAL = rotation_df[j].IN_TIME_REAL]]

\* the row on which a player who enters at time t (deciseconds, rounded up
\* to the second) checks in: the first row of the period that starts at t,
\* or the substitution row of that second (the first for the home table,
\* the last for the away table)
CheckInRow(d, t, side) ==
    IF t % 7200 = 0
    THEN Least({k \in DOMAIN d :
                  d[k].PERIOD = t \div 7200 + 1 /\ d[k].ELAPSED_TIME = t})
    ELSE IF side = "HOME" THEN Least(SubRowsAt(d, ceil_to_second(t)))
    ELSE Greatest(SubRowsAt(d, ceil_to_second(t)))

\* the last row of a player who leaves at time t: the last row of the
\* period that ends at t, or the row before the substitution row
CheckOutRow(d, t, side) ==
    IF t % 7200 = 0
    THEN Greatest({k \in DOMAIN d :
                     d[k].PERIOD = t \div 7200 /\ d[k].ELAPSED_TIME = t})
    ELSE IF side = "HOME" THEN Least(SubRowsAt(d, ceil_to_second(t))) - 1
    ELSE Greatest(SubRowsAt(d, ceil_to_second(t))) - 1

FirstTime(row) == IF row.IN_TIME_REAL <= row.OUT_TIME_REAL
                  THEN row.IN_TIME_REAL ELSE row.OUT_TIME_REAL

LastTime(row) == IF row.IN_TIME_REAL <= row.OUT_TIME_REAL
                 THEN row.OUT_TIME_REAL ELSE row.IN_TIME_REAL

\* the intervals of the rotation table that put x on row k
Covering(d, rotation_df, side, x, k) ==
    {j \in DOMAIN rotation_df :
        /\ rotation_df[j][fill] = x
        /\ CheckInRow(d, FirstTime(rotation_df[j]), side) <= k
        /\ k <= CheckOutRow(d, LastTime(rotation_df[j]), side)}

PlayersOf(rotation_df) == {rotation_df[j][fill] : j \in DOMAIN rotation_df}

CoveredRowsOnly ==
    pc = "create_shared_poss_dict" =>
        \A k \in DOMAIN df :
            /\ \A x \in PlayersOf(home_rotation_df) :
                 Count(df[k].HOME_LINEUP, x)
                     = Cardinality(Covering(df, home_rotation_df, "HOME", x, k))
            /\ \A x \in PlayersOf(away_rotation_df) :
                 Count(df[k].AWAY_LINEUP, x)
                     = Cardinality(Covering(df, away_rotation_df, "AWAY", x, k))
            /\ Range(df[k].HOME_LINEUP) \subseteq PlayersOf(home_rotation_df)
            /\ Range(df[k].AWAY_LINEUP) \subseteq PlayersOf(away_rotation_df)

\* C39: assign_lineups gives the same result (table and outcome) for the
\* rotation tables with the two times of every interval exchanged, and when
\* it returns, a player stands in the lineup of a row once for each of its
\* intervals whose check-in row is at or before the row and whose
\* check-out row is at or after it, and in no other row.
C39_FlippedIntervalsSameLineups ==
    /\ [][(pc = "done" /\ pc' # "done") =>
            \E r \in {lineups_assigned(df, Flipped(home_rotation_df'),
                                       Flipped(away_rotation_df'), fill')} :
                df' = r.d /\ failure' = r.e]_vars
    /\ []CoveredRowsOnly

\* a home player recorded with the check-out before the check-in stands in
\* the rows from the substitution to the end of the period and not in the
\* rows before
C39_Witness ==
    /\ pc = "create_shared_poss_dict"
    /\ \E j \in DOMAIN home_rotation_df :
         /\ home_rotation_df[j].OUT_TIME_REAL = 195
         /\ home_rotation_df[j].IN_TIME_REAL = 7200
         /\ home_rotation_df[j][fill] \notin Range(df[1].HOME_LINEUP)
         /\ home_rotation_df[j][fill] \in Range(df[Len(df)].HOME_LINEUP)

\* ------------------------------------------------------------------------
\* Elapsed time over regulation and overtime
\* ------------------------------------------------------------------------

\* the start, a moment and the end of each of the four quarters and of two
\* overtimes
MaxElapsedRows == 2

ElapsedEvents == {<<"TO_DEAD", 1>>, <<"MISS", 2>>}

ElapsedTimes ==
    <<<<1, <<12, 0>>>>, <<1, <<11, 40>>>>, <<1, <<0, 0>>>>,
      <<2, <<12, 0>>>>, <<2, <<11, 40>>>>, <<2, <<0, 0>>>>,
      <<3, <<12, 0>>>>, <<3, <<11, 40>>>>, <<3, <<0, 0>>>>,
      <<4, <<12, 0>>>>, <<4, <<11, 40>>>>, <<4, <<0, 0>>>>,
      <<5, <<5, 0>>>>, <<5, <<2, 30>>>>, <<5, <<0, 0>>>>,
      <<6, <<5, 0>>>>, <<6, <<2, 30>>>>, <<6, <<0, 0>>>>>>

InitElapsed == Construct(ElapsedEvents, ElapsedTimes, MaxElapsedRows)

SpecElapsed == InitElapsed /\ [][Next]_vars

\* the length of period p in tenths of a second, and of the periods before
PeriodLength(period) == IF period <= 4 THEN 12 * 600 ELSE 5 * 600

RECURSIVE LengthBefore(_)
LengthBefore(period) ==
    IF period <= 1 THEN 0
    ELSE LengthBefore(period - 1) + PeriodLength(period - 1)

ClockTenths(r) == (r.PCTIMESTRING[1] * 60 + r.PCTIMESTRING[2]) * 10

\* C40: right after _assign_elapsed_time, the ELAPSED_TIME of every row is
\* the length of the periods before its period plus the time run in its
\* period; within a period it grows as the clock runs down; and the end of
\* a period has the elapsed time of the start of the next.
C40_ElapsedTimeByPeriodLengths ==
    pc = "_assign_remaining_quarter_time" =>
        /\ \A k \in DOMAIN df :
             df[k].ELAPSED_TIME
                = LengthBefore(df[k].PERIOD)
                  + (PeriodLength(df[k].PERIOD) - ClockTenths(df[k]))
        /\ \A j, k \in DOMAIN df :
             (df[j].PERIOD = df[k].PERIOD /\ ClockTenths(df[j]) > ClockTenths(df[k]))
                => df[j].ELAPSED_TIME < df[k].ELAPSED_TIME
        /\ \A j, k \in DOMAIN df :
             (/\ df[k].PERIOD = df[j].PERIOD + 1
              /\ ClockTenths(df[j]) = 0
              /\ ClockTenths(df[k]) = PeriodLength(df[k].PERIOD))
                => df[j].ELAPSED_TIME = df[k].ELAPSED_TIME

\* the end of the first overtime and the start of the second, at 53 minutes
C40_Witness ==
    /\ pc = "_assign_remaining_quarter_time"
    /\ Len(df) = 2
    /\ df[1].PERIOD = 5 /\ df[1].PCTIMESTRING = <<0, 0>>
    /\ df[2].PERIOD = 6 /\ df[2].PCTIMESTRING = <<5, 0>>
    /\ df[1].ELAPSED_TIME = 53 * 600 /\ df[2].ELAPSED_TIME = 53 * 600

====
